---- MODULE Spec2Model ----
(***************************************************************************)
(* Knowledge-graph ingestion and query engine of Team Synapse              *)
(* (services/neo4j_service.py).  The committed graph, the write            *)
(* transactions of store_meeting_data and the tenant-scoped queries.       *)
(*                                                                         *)
(* Strings the code only compares for equality are TLA+ strings.  Strings  *)
(* the code orders, lower-cases, strips or searches (priority, dueDate,    *)
(* person names, e-mails) are sequences of character codes.                *)
(***************************************************************************)
EXTENDS Integers, Sequences, FiniteSets, TLC

\* ------------------------------------------------------------------ bounds
MaxCalls == 2        \* store_meeting_data calls in one behaviour
MaxList == 2         \* longest actionItems / keyDecisions / clients / projects list

\* Python None / Cypher null
NULL == "null"

Procs == {1, 2}
Tenants == {"A", "B"}

\* --------------------------------------------------------- string helpers
\* str.lower() on a sequence of character codes
LowerChar(c) == IF c \in 65..90 THEN c + 32 ELSE c

Lower(s) == [i \in 1..Len(s) |-> LowerChar(s[i])]

\* str.strip(): drop leading and trailing blanks
RECURSIVE StripLeft(_)
StripLeft(s) == IF s # <<>> /\ Head(s) = 32 THEN StripLeft(Tail(s)) ELSE s

RECURSIVE StripRight(_)
StripRight(s) ==
    IF s # <<>> /\ s[Len(s)] = 32 THEN StripRight(SubSeq(s, 1, Len(s) - 1)) ELSE s

Strip(s) == StripRight(StripLeft(s))

\* Python "a in b" on strings: a is a contiguous substring of b
Contains(b, a) ==
    \E i \in 0..(Len(b) - Len(a)) : SubSeq(b, i + 1, i + Len(a)) = a

\* None and "key absent" for values that are otherwise character sequences
NoneS == <<0>>
MISSING == <<1>>

\* Python "x or ''" for a value that may be None
OrEmpty(x) == IF x = NoneS THEN <<>> ELSE x

\* dict.get(key, default)
Get(x, default) == IF x = MISSING THEN default ELSE x

\* Python truthiness of an optional string
Truthy(x) == x # NoneS /\ x # <<>>

\* Order of two strings given as sequences of character codes (Cypher
\* ORDER BY on strings is the code-point order)
RECURSIVE StrLess(_, _)
StrLess(s, t) ==
    IF t = <<>> THEN FALSE
    ELSE IF s = <<>> THEN TRUE
    ELSE IF Head(s) # Head(t) THEN Head(s) < Head(t)
    ELSE StrLess(Tail(s), Tail(t))

\* A long text: the characters of head followed by pad filler characters
\* ("."); given is FALSE for a key the record does not have
Text(head, pad) == [head |-> head, pad |-> pad, given |-> TRUE]
MissingText == [head |-> <<>>, pad |-> 0, given |-> FALSE]
TextLen(t) == Len(t.head) + t.pad

\* dict.get(key, "") for a text
GetText(t) == IF t.given THEN t ELSE Text(<<>>, 0)

\* t[:n]
Prefix(t, n) ==
    IF TextLen(t) <= n THEN t
    ELSE IF Len(t.head) >= n THEN Text(SubSeq(t.head, 1, n), 0)
    ELSE Text(t.head, n - Len(t.head))

\* Cypher "t CONTAINS term": an occurrence that reaches into the filler needs
\* no more of it than the term is long
TextContains(t, term) ==
    LET k == IF t.pad < Len(term) THEN t.pad ELSE Len(term)
    IN Contains(t.head \o [i \in 1..k |-> 46], term)

\* the transcript limit of _create_meeting_node
TranscriptLimit == 10000

\* ------------------------------------------------------------ input values
\* person names: "S", "s", "S C", "S L", "B", and "S " with a trailing blank
Sarah == <<83>>
SarahLower == <<115>>
SarahConnor == <<83, 32, 67>>
SarahLee == <<83, 32, 76>>
SarahBlank == <<83, 32>>
Bob == <<66>>
\* the sentinel "unassigned" (abbreviated to its first two letters)
UNASSIGNED == <<117, 110>>

\* e-mail addresses "1", "2", and a blank one
Email1 == <<49>>
Email2 == <<50>>
EmailBlank == <<32>>

\* priorities and due dates as character codes
P_high == <<104, 105, 103, 104>>
P_medium == <<109, 101, 100, 105, 117, 109>>
P_low == <<108, 111, 119>>
P_unspecified == <<117, 110, 115, 112, 101, 99, 105, 102, 105, 101, 100>>
D_none == <<110, 111, 110, 101>>
D_jan == <<50, 48, 50, 52, 45, 48, 49>>
D_feb == <<50, 48, 50, 52, 45, 48, 50>>
\* "unknown", "Untitled Meeting" (by its first letter), and the values of
\* sentiment, meetingType, urgencyLevel and requiresFollowUp
D_unknown == <<117, 110, 107, 110, 111, 119, 110>>
Untitled == <<85>>
S_neutral == <<110, 101, 117>>
S_positive == <<112, 111, 115>>
T_other == <<111, 116, 104>>
T_standup == <<115, 116, 97>>
U_normal == <<110, 111, 114>>
U_high == <<104, 105>>
B_false == <<70>>
\* the status values "pending", "blocked", "completed" (by two letters)
St_pending == <<112, 101>>
St_blocked == <<98, 108>>
St_completed == <<99, 111>>
\* two roles: "eng", "mgr"
R_eng == <<101, 110, 103>>
R_mgr == <<109, 103, 114>>
B_true == <<84>>

\* ------------------------------------------------------------------ graph
\* A graph is [n: node id -> node record, e: set of relationships
\* <<type, from, to, relationship id>>, next: the next unused id].
EmptyGraph == [n |-> <<>>, e |-> {}, next |-> 1]

Ids(g) == DOMAIN g.n

Labelled(g, l) == {i \in Ids(g) : g.n[i].label = l}

\* MATCH (x:Label {tenantId: $t}): a null parameter matches nothing
TenantNodes(g, l, t) == {i \in Labelled(g, l) : t # NULL /\ g.n[i].tenantId = t}

\* MATCH (m:Meeting {meetingId: $meetingId})
MatchMeeting(g, mid) == {i \in Labelled(g, "Meeting") : g.n[i].meetingId = mid}

\* MATCH (a:ActionItem {actionId: $actionId})
MatchActionItem(g, aid) == {i \in Labelled(g, "ActionItem") : g.n[i].actionId = aid}

\* the relationships of one type between two nodes
Edges(g, etype, from, to) == {e \in g.e : e[1] = etype /\ e[2] = from /\ e[3] = to}

\* Lexicographic order on tuples of ids
RECURSIVE TupleLess(_, _)
TupleLess(x, y) ==
    IF x = <<>> \/ y = <<>> THEN FALSE
    ELSE IF Head(x) # Head(y) THEN Head(x) < Head(y)
    ELSE TupleLess(Tail(x), Tail(y))

\* CREATE (x {props}) CREATE (m)-[:etype]->(x), once per matched row m
CreateLinked(g, M, props, etype) ==
    LET rank(m) == Cardinality({x \in M : x < m})
        k == Cardinality(M)
        new == g.next .. (g.next + k - 1)
    IN [n |-> g.n @@ [i \in new |-> props],
        e |-> g.e \cup {<<etype, m, g.next + rank(m), g.next + k + rank(m)>> : m \in M},
        next |-> g.next + 2 * k]

\* MERGE (x)-[:etype]->(y) for every row <<x, y>> of pairs: a relationship is
\* created only where none of that type joins the two nodes
MergeEdges(g, etype, pairs) ==
    LET absent == {pr \in pairs : Edges(g, etype, pr[1], pr[2]) = {}}
        rank(pr) == Cardinality({x \in absent : TupleLess(x, pr)})
    IN [g EXCEPT !.e = @ \cup {<<etype, pr[1], pr[2], g.next + rank(pr)>> : pr \in absent},
                 !.next = @ + Cardinality(absent)]

\* CREATE (x {props})
CreateNode(g, props) ==
    [n |-> g.n @@ (g.next :> props),
     e |-> g.e,
     next |-> g.next + 1]

\* a match on equal names only
RECURSIVE ScanAttendees_ExactOnly(_, _, _)
ScanAttendees_ExactOnly(assignee, atts, k) ==
    IF k > Len(atts) THEN [email |-> NoneS, name |-> assignee]
    ELSE LET attendee == atts[k]
             att_name == Strip(OrEmpty(attendee.name))
             att_email == Strip(OrEmpty(attendee.email))
         IN IF attendee.isDict /\ att_name # <<>> /\ Lower(assignee) = Lower(att_name)
            THEN [email |-> IF att_email # <<>> THEN att_email ELSE NoneS,
                  name |-> att_name]
            ELSE ScanAttendees_ExactOnly(assignee, atts, k + 1)

\* ------------------------------------------------------- entity resolver
\* An attendee of inviteMetadata.attendees: [isDict, name, email]
\* The scan of _create_action_items over the attendee list, from position k
\* on: the first attendee whose stripped name matches decides the result.
RECURSIVE ScanAttendees(_, _, _)
ScanAttendees(assignee, atts, k) ==
    IF k > Len(atts) THEN [email |-> NoneS, name |-> assignee]
    ELSE LET attendee == atts[k]
             att_name == Strip(OrEmpty(attendee.name))
             att_email == Strip(OrEmpty(attendee.email))
             assignee_lower == Lower(assignee)
         IN IF ~attendee.isDict THEN ScanAttendees(assignee, atts, k + 1)
            ELSE IF att_name = <<>> /\ att_email = <<>>
                 THEN ScanAttendees(assignee, atts, k + 1)
            ELSE IF att_name # <<>>
                    /\ (\/ assignee_lower = Lower(att_name)
                        \/ Contains(Lower(att_name), assignee_lower)
                        \/ Contains(assignee_lower, Lower(att_name)))
                 THEN [email |-> IF att_email # <<>> THEN att_email ELSE NoneS,
                       name |-> att_name]
            ELSE ScanAttendees(assignee, atts, k + 1)

\* (email, canonical_name) for an assignee; an empty invite_attendees stands
\* for both None and the empty list, which "if invite_attendees" treats alike
ResolveAssignee(assignee, invite_attendees) ==
    IF invite_attendees # <<>>
    THEN ScanAttendees(assignee, invite_attendees, 1)
    ELSE [email |-> NoneS, name |-> assignee]

\* invite_meta.get("attendees") if invite_meta else None
InviteAttendees(a) ==
    IF a.inviteMetadata.present THEN a.inviteMetadata.attendees ELSE <<>>

\* assignee = item.get("assignee", "unassigned")
ItemAssignee(item) == Get(item.assignee, UNASSIGNED)

\* the sentinel not excluded
Assignable_NotEmptyOnly(item) == Truthy(ItemAssignee(item))

\* if assignee and assignee != "unassigned"
Assignable(item) == Truthy(ItemAssignee(item)) /\ ItemAssignee(item) # UNASSIGNED

\* ---------------------------------------------- the statements of one call
\* f"{meeting_id}_action_{idx}" and f"{meeting_id}_decision_{idx}", idx from 0
ActionId(meeting_id, i) == <<meeting_id, "action", i - 1>>
DecisionId(meeting_id, i) == <<meeting_id, "decision", i - 1>>

\* the statements of action items lo..hi, in order (the range is halved to
\* keep the evaluation shallow on long lists)
RECURSIVE ItemStmtsRange(_, _, _)
ItemStmtsRange(a, lo, hi) ==
    IF lo > hi THEN <<>>
    ELSE IF lo = hi
    THEN <<[op |-> "item", i |-> lo]>>
         \o (IF Assignable(a.actionItems[lo]) THEN <<[op |-> "person", i |-> lo]>> ELSE <<>>)
    ELSE LET mid == (lo + hi) \div 2
         IN ItemStmtsRange(a, lo, mid) \o ItemStmtsRange(a, mid + 1, hi)

ItemStmts(a, i) == ItemStmtsRange(a, i, Len(a.actionItems))

RECURSIVE NamedStmts(_, _, _)
NamedStmts(op, names, i) ==
    IF i > Len(names) THEN <<>>
    ELSE (IF names[i] = "" THEN <<>> ELSE <<[op |-> op, i |-> i]>>)
         \o NamedStmts(op, names, i + 1)

\* the decisions written before the action items
Stmts_DecisionsFirst(a) ==
    <<[op |-> "meeting", i |-> 0]>>
    \o [i \in 1..Len(a.keyDecisions) |-> [op |-> "decision", i |-> i]]
    \o ItemStmts(a, 1)
    \o NamedStmts("client", a.mentionedClients, 1)
    \o NamedStmts("project", a.mentionedProjects, 1)

\* The tx.run calls of _store_meeting_transaction, in the order it issues them
Stmts(a) ==
    <<[op |-> "meeting", i |-> 0]>>
    \o ItemStmts(a, 1)
    \o [i \in 1..Len(a.keyDecisions) |-> [op |-> "decision", i |-> i]]
    \o NamedStmts("client", a.mentionedClients, 1)
    \o NamedStmts("project", a.mentionedProjects, 1)

\* analysis.get("metadata", {}).get(key, default)
MetaGet(a, key, default) ==
    IF a.metadata.present THEN Get(a.metadata[key], default) ELSE default

\* the transcript stored whole
CreateMeetingNode_NoLimit(g, a) ==
    CreateNode(g, [label |-> "Meeting", meetingId |-> a.meetingId, tenantId |-> a.tenantId,
                   title |-> Get(a.meetingTitle, Untitled),
                   summary |-> Get(a.summary, <<>>),
                   meetingDate |-> Get(a.meetingDate, D_unknown),
                   sentiment |-> Get(a.sentiment, S_neutral),
                   processingTimestamp |-> a.processingTimestamp,
                   transcript |-> GetText(a.transcript),
                   meetingType |-> Get(a.meetingType, T_other),
                   urgencyLevel |-> MetaGet(a, "urgencyLevel", U_normal),
                   requiresFollowUp |-> MetaGet(a, "requiresFollowUp", B_false)])

\* _create_meeting_node
CreateMeetingNode(g, a) ==
    CreateNode(g, [label |-> "Meeting", meetingId |-> a.meetingId, tenantId |-> a.tenantId,
                   title |-> Get(a.meetingTitle, Untitled),
                   summary |-> Get(a.summary, <<>>),
                   meetingDate |-> Get(a.meetingDate, D_unknown),
                   sentiment |-> Get(a.sentiment, S_neutral),
                   processingTimestamp |-> a.processingTimestamp,
                   transcript |-> Prefix(GetText(a.transcript), TranscriptLimit),
                   meetingType |-> Get(a.meetingType, T_other),
                   urgencyLevel |-> MetaGet(a, "urgencyLevel", U_normal),
                   requiresFollowUp |-> MetaGet(a, "requiresFollowUp", B_false)])

\* query_item of _create_action_items
CreateActionItem(g, a, i) ==
    LET item == a.actionItems[i]
        props == [label |-> "ActionItem",
                  actionId |-> ActionId(a.meetingId, i),
                  tenantId |-> a.tenantId,
                  task |-> item.task,
                  assignee |-> ItemAssignee(item),
                  dueDate |-> Get(item.dueDate, D_none),
                  priority |-> Get(item.priority, P_unspecified),
                  status |-> Get(item.status, St_pending),
                  blockers |-> item.blockers.list,
                  assigneeRole |-> Get(item.assigneeRole, <<>>)]
    IN CreateLinked(g, MatchMeeting(g, a.meetingId), props, "HAS_ACTION_ITEM")

\* MERGE (p)-[:ASSIGNED_TO]->(a) for every matched p and a
LinkAssigned(g, P, A) == MergeEdges(g, "ASSIGNED_TO", P \X A)

\* query_person of _create_action_items, e-mail branch
MergePersonByEmail(g, email, name, role, tenant_id, action_id) ==
    LET P == {i \in Labelled(g, "Person") :
                 g.n[i].email = email /\ g.n[i].tenantId = tenant_id}
        created == CreateNode(g, [label |-> "Person", tenantId |-> tenant_id,
                                  email |-> email, name |-> name, role |-> role])
        matched == [g EXCEPT !.n = [i \in Ids(g) |->
                       IF i \in P
                       THEN [g.n[i] EXCEPT
                               !.name = IF @ # NoneS THEN @ ELSE name,
                               !.role = IF role # NoneS THEN role ELSE @]
                       ELSE g.n[i]]]
    IN IF P = {}
       THEN LinkAssigned(created, {g.next}, MatchActionItem(created, action_id))
       ELSE LinkAssigned(matched, P, MatchActionItem(matched, action_id))

\* query_person of _create_action_items, name-only branch
MergePersonByName(g, name, tenant_id, action_id) ==
    LET P == {i \in Labelled(g, "Person") :
                 g.n[i].name = name /\ g.n[i].tenantId = tenant_id}
        created == CreateNode(g, [label |-> "Person", tenantId |-> tenant_id,
                                  email |-> NoneS, name |-> name, role |-> NoneS])
    IN IF P = {}
       THEN LinkAssigned(created, {g.next}, MatchActionItem(created, action_id))
       ELSE LinkAssigned(g, P, MatchActionItem(g, action_id))

\* the name-only branch whatever was resolved
CreatePerson_NameOnly(g, a, i) ==
    LET item == a.actionItems[i]
        r == ResolveAssignee(ItemAssignee(item), InviteAttendees(a))
    IN MergePersonByName(g, r.name, a.tenantId, ActionId(a.meetingId, i))

\* the Person part of one iteration of _create_action_items
CreatePerson(g, a, i) ==
    LET item == a.actionItems[i]
        r == ResolveAssignee(ItemAssignee(item), InviteAttendees(a))
    IN IF Truthy(r.email)
       THEN MergePersonByEmail(g, r.email, r.name, Get(item.assigneeRole, <<>>),
                               a.tenantId, ActionId(a.meetingId, i))
       ELSE MergePersonByName(g, r.name, a.tenantId, ActionId(a.meetingId, i))

\* _create_decisions, one iteration
CreateDecision(g, a, i) ==
    CreateLinked(g, MatchMeeting(g, a.meetingId),
                 [label |-> "Decision", decisionId |-> DecisionId(a.meetingId, i),
                  tenantId |-> a.tenantId, description |-> a.keyDecisions[i]],
                 "HAS_DECISION")

\* CREATE in place of the first MERGE
MergeNamed_AlwaysCreate(g, label, etype, meeting_id, name, tenant_id) ==
    LET M == MatchMeeting(g, meeting_id)
        created == CreateNode(g, [label |-> label, name |-> name, tenantId |-> tenant_id])
    IN MergeEdges(created, etype, M \X {g.next})

\* MATCH (m:Meeting {meetingId}) MERGE (x:label {name, tenantId}) MERGE (m)-[:etype]->(x)
MergeNamed(g, label, etype, meeting_id, name, tenant_id) ==
    LET M == MatchMeeting(g, meeting_id)
        X == {i \in Labelled(g, label) : g.n[i].name = name /\ g.n[i].tenantId = tenant_id}
        created == CreateNode(g, [label |-> label, name |-> name, tenantId |-> tenant_id])
        h == IF X = {} /\ M # {} THEN created ELSE g
        Y == IF X = {} /\ M # {} THEN {g.next} ELSE X
    IN MergeEdges(h, etype, M \X Y)

\* _create_clients, one iteration
CreateClient(g, a, i) ==
    MergeNamed(g, "Client", "DISCUSSED_CLIENT", a.meetingId, a.mentionedClients[i], a.tenantId)

\* _create_projects, one iteration
CreateProject(g, a, i) ==
    MergeNamed(g, "Project", "RELATES_TO_PROJECT", a.meetingId, a.mentionedProjects[i], a.tenantId)

\* A MERGE whose pattern has a null property value is rejected by the database
StmtRejected(a, s) ==
    s.op \in {"person", "client", "project"} /\ a.tenantId = NULL

\* The graph after statement s of the call for record a has run on graph g
RunStmt(g, a, s) ==
    CASE s.op = "meeting" -> CreateMeetingNode(g, a)
      [] s.op = "item" -> CreateActionItem(g, a, s.i)
      [] s.op = "person" -> CreatePerson(g, a, s.i)
      [] s.op = "decision" -> CreateDecision(g, a, s.i)
      [] s.op = "client" -> CreateClient(g, a, s.i)
      [] s.op = "project" -> CreateProject(g, a, s.i)

\* _store_meeting_transaction from statement k on, run without interruption
\* Statements r[1]..r[2] run in order on g. The range is halved and the
\* graph after the first half is computed (its id counter is read) before
\* the second half starts, which keeps the evaluation shallow.
RECURSIVE RunRange(_, _, _, _)
RunRange(g, a, stmts, r) ==
    IF r[1] > r[2] THEN g
    ELSE IF r[1] = r[2] THEN RunStmt(g, a, stmts[r[1]])
    ELSE LET mid == (r[1] + r[2]) \div 2
             half == RunRange(g, a, stmts, <<r[1], mid>>)
         IN IF half.next >= g.next THEN RunRange(half, a, stmts, <<mid + 1, r[2]>>)
            ELSE half

RunFrom(g, a, k) == LET stmts == Stmts(a) IN RunRange(g, a, stmts, <<k, Len(stmts)>>)

\* ----------------------------------------------------------------- inputs
SeqsUpTo(S, n) == UNION {[1..k -> S] : k \in 0..n}

NoInvite == [present |-> FALSE, attendees |-> <<>>]
\* the value of "mentionedPeople": a list, or the JSON null
People(list) == [none |-> FALSE, list |-> list]
NullPeople == [none |-> TRUE, list |-> <<>>]
NoMetadata == [present |-> FALSE, urgencyLevel |-> MISSING, requiresFollowUp |-> MISSING]
Metadata(urgency, follow_up) ==
    [present |-> TRUE, urgencyLevel |-> urgency, requiresFollowUp |-> follow_up]
Invite(atts) == [present |-> TRUE, attendees |-> atts]
Attendee(name, email) == [isDict |-> TRUE, name |-> name, email |-> email]
\* an attendee entry that is not a dict
NonDict == [isDict |-> FALSE, name |-> NoneS, email |-> NoneS]

\* the value of "blockers": a list of texts, or the key left out
Blockers(list) == [given |-> TRUE, list |-> list]
NoBlockers == [given |-> FALSE, list |-> <<>>]

Item(task, assignee, priority, dueDate) ==
    [task |-> task, assignee |-> assignee, priority |-> priority,
     dueDate |-> dueDate, assigneeRole |-> MISSING,
     status |-> MISSING, blockers |-> NoBlockers]

\* An analysis record as store_meeting_data receives it
Analysis(mid, t, items, decisions, clients, projects, invite) ==
    [meetingId |-> mid, tenantId |-> t, meetingTitle |-> <<75>>, summary |-> <<>>,
     transcript |-> Text(<<84>>, 0), processingTimestamp |-> 0,
     meetingDate |-> MISSING, sentiment |-> MISSING, meetingType |-> MISSING,
     metadata |-> NoMetadata, mentionedPeople |-> People(<<>>),
     actionItems |-> items, keyDecisions |-> decisions,
     mentionedClients |-> clients, mentionedProjects |-> projects,
     inviteMetadata |-> invite]

\* the clock of store_meeting_data_tool, in seconds, and the meetingId
\* f"live_{now:%Y%m%d_%H%M%S}" it gives
Seconds == {1, 2}
LiveMeetingId(now) == IF now = 1 THEN "live_1" ELSE "live_2"

\* meeting_data of store_meeting_data_tool: no tenantId key, the transcript
\* cut, sentiment "neutral", no inviteMetadata
ToolRecord(now, meeting_date, transcript, items, decisions, clients, projects) ==
    [Analysis(LiveMeetingId(now), NULL, items, decisions, clients, projects, NoInvite)
        EXCEPT !.meetingDate = meeting_date,
               !.transcript = Prefix(transcript, TranscriptLimit),
               !.sentiment = S_neutral]

\* _generate_meeting_id: f"{safe_tenant}_mtg_{timestamp}_{safe_filename}".
\* A valid username has no blank, "@", "/" or "\" to replace; the tenants
\* here are shorter than the 30 characters kept
SafeTenant(tenant) == tenant
GenerateMeetingId(tenant, stamp) ==
    CASE SafeTenant(tenant) = "A" /\ stamp = "m1" -> "A_mtg_m1"
      [] SafeTenant(tenant) = "A" /\ stamp = "m2" -> "A_mtg_m2"
      [] SafeTenant(tenant) = "B" /\ stamp = "m1" -> "B_mtg_m1"
      [] SafeTenant(tenant) = "B" /\ stamp = "m2" -> "B_mtg_m2"

\* analysis["meetingId"] = meeting_id and
\* analysis["tenantId"] = config.app.tenant_id in process_audio_file
PipelineRecord(a, meeting_id, tenant) ==
    [a EXCEPT !.meetingId = meeting_id, !.tenantId = tenant]

SarahItem == Item("t1", Sarah, P_high, D_jan)

\* the i-th team member, "M1", "M2", ...
Member(i) == <<77, 48 + i>>

\* n action items of one member, the first b of them blocked
MemberItems(i, n, b) ==
    [k \in 1..n |-> [Item("t1", Member(i), P_medium, D_jan)
                       EXCEPT !.status = IF k <= b THEN St_blocked ELSE MISSING]]

RECURSIVE Team(_, _, _)
\* the items of members k..1, each with n items, the first b blocked
Team(k, n, b) == IF k = 0 THEN <<>> ELSE MemberItems(k, n, b) \o Team(k - 1, n, b)

\* workloads around the limits of analyze_team_health
Workloads ==
    {Team(6, 11, 0),
     MemberItems(1, 11, 0) \o MemberItems(2, 10, 0),
     MemberItems(1, 10, 3), MemberItems(1, 10, 4),
     MemberItems(1, 10, 3) \o MemberItems(2, 10, 0)}

\* an action item nobody is assigned to, with a priority, a status and blockers
Backlog(priority, status, blockers) ==
    [Item("t1", UNASSIGNED, priority, D_jan) EXCEPT !.status = status, !.blockers = blockers]

\* backlogs around the ordering and the limit of find_blockers
Backlogs ==
    {<<Backlog(MISSING, St_blocked, NoBlockers), Backlog(P_low, St_blocked, NoBlockers)>>,
     <<Backlog(P_low, St_blocked, NoBlockers), Backlog(MISSING, St_blocked, NoBlockers)>>,
     <<Backlog(P_medium, MISSING, Blockers(<<"b1">>)), Backlog(P_high, MISSING, Blockers(<<>>)),
       Backlog(P_high, St_completed, NoBlockers),
       [SarahItem EXCEPT !.status = St_blocked]>>,
     [k \in 1..12 |-> Backlog(IF k = 12 THEN P_high ELSE IF k = 11 THEN P_medium ELSE P_low,
                              St_blocked, NoBlockers)]}

\* The records of each scenario; a behaviour draws all its records from one
ScenarioAnalyses(sc) ==
    CASE sc = "validation" ->
           {Analysis(mid, t, <<>>, <<>>, cl, <<>>, NoInvite) :
              mid \in {NULL, "", "m1"}, t \in Tenants \cup {NULL},
              cl \in {<<>>, <<"Acme">>}}
      [] sc = "clients" ->
           {Analysis(mid, t, <<>>, <<>>, cl, <<>>, NoInvite) :
              mid \in {"m1", "m2"}, t \in Tenants,
              cl \in SeqsUpTo({"", "Acme"}, MaxList)}
      [] sc = "projects" ->
           {Analysis(mid, t, <<>>, <<>>, <<>>, pr, NoInvite) :
              mid \in {"m1", "m2"}, t \in Tenants,
              pr \in SeqsUpTo({"", "Phoenix"}, MaxList)}
      [] sc = "persons" ->
           {Analysis(mid, "A", items, <<>>, <<>>, <<>>, inv) :
              mid \in {"m1", "m2"},
              items \in SeqsUpTo({Item("t1", as, P_high, D_jan) :
                                    as \in {Sarah, SarahConnor}}, MaxList),
              inv \in {NoInvite,
                       Invite(<<Attendee(SarahConnor, Email1)>>),
                       Invite(<<Attendee(SarahLee, Email2), Attendee(SarahConnor, Email1)>>)}}
      [] sc = "order" ->
           {Analysis(mid, "A", items, <<>>, <<>>, <<>>, NoInvite) :
              mid \in {"m1", "m2"},
              items \in SeqsUpTo({Item("t1", Bob, pr, D_jan) :
                                    pr \in {P_high, P_medium, MISSING}}, MaxList)
                        \cup {<<Item("t1", Bob, P_low, MISSING)>>,
                              <<Item("t2", Bob, P_high, D_feb)>>}}
      [] sc = "full" ->
           {Analysis(mid, t, c[1], c[2], c[3], c[4], NoInvite) :
              mid \in {"m1", "m2"}, t \in Tenants,
              c \in {<<<<>>, <<>>, <<>>, <<>>>>,
                     <<<<SarahItem>>, <<>>, <<>>, <<>>>>,
                     <<<<SarahItem>>, <<>>, <<"Acme">>, <<"Phoenix">>>>,
                     <<<<SarahItem>>, <<"d1">>, <<"Acme">>, <<"Phoenix">>>>,
                     <<<<SarahItem, Item("t2", UNASSIGNED, P_low, D_feb)>>,
                       <<"d1", "d2">>, <<"Acme">>, <<"Phoenix">>>>}}
      [] sc = "resolver" ->
           {Analysis("m1", "A", items, <<>>, <<>>, <<>>, inv) :
              items \in {<<Item("t1", as, P_high, D_jan)>> :
                           as \in {MISSING, NoneS, <<>>, UNASSIGNED, Sarah}}
                        \cup {<<>>, <<Item("t1", UNASSIGNED, P_high, D_jan), SarahItem>>},
              inv \in {NoInvite, Invite(<<Attendee(SarahConnor, Email1)>>)}}
           \cup
           {Analysis(mid, "A", <<Item("t1", as, P_high, D_jan)>>, <<>>, <<>>, <<>>,
                     Invite(atts)) :
              mid \in {"m1", "m2"}, as \in {Sarah, SarahLower, Bob},
              atts \in {<<Attendee(SarahBlank, EmailBlank)>>,
                        <<NonDict, Attendee(SarahConnor, NoneS)>>,
                        <<Attendee(NoneS, Email2), Attendee(SarahConnor, Email1)>>,
                        <<Attendee(<<>>, <<>>), Attendee(SarahLee, Email2),
                          Attendee(SarahConnor, Email1)>>,
                        <<>>}}
      [] sc = "roles" ->
           {Analysis(mid, "A", <<[SarahItem EXCEPT !.assigneeRole = role]>>,
                     <<>>, <<>>, <<>>, Invite(<<Attendee(name, Email1)>>)) :
              mid \in {"m1", "m2"}, role \in {MISSING, NoneS, R_eng, R_mgr},
              name \in {SarahConnor, SarahLee}}
      [] sc = "pipeline" -> {}
      [] sc = "service" ->
           {Analysis("m1", "A", <<>>, <<>>, <<>>, <<>>, NoInvite),
            Analysis("m2", "A", <<SarahItem>>, <<"d1">>, <<"Acme">>, <<"Phoenix">>, NoInvite)}
      [] sc = "health" ->
           {Analysis("m1", "A", items, <<>>, <<>>, <<>>, NoInvite) : items \in Workloads}
      [] sc = "blockers" ->
           {Analysis("m1", "A", items, <<>>, <<>>, <<>>, NoInvite) : items \in Backlogs}
      [] sc = "defaults" ->
           LET base == Analysis("m1", "A", <<>>, <<>>, <<>>, <<>>, NoInvite)
           IN {base, [base EXCEPT !.meetingId = "m2"],
               [base EXCEPT !.meetingDate = D_jan],
               [base EXCEPT !.sentiment = S_positive],
               [base EXCEPT !.meetingType = T_standup],
               [base EXCEPT !.metadata = Metadata(U_high, B_true)],
               [base EXCEPT !.metadata = Metadata(MISSING, MISSING)],
               [base EXCEPT !.meetingTitle = MISSING, !.summary = MISSING]}
              \cup {[base EXCEPT !.transcript = t] :
                       t \in {MissingText, Text(<<>>, 0),
                              Text(<<84>>, TranscriptLimit - 1),
                              Text(<<84>>, TranscriptLimit),
                              Text(<<84>>, TranscriptLimit + 1)}}
      [] sc = "tool" ->
           {ToolRecord(now, D_jan, Text(<<84>>, pad), c[1], c[2], c[3], <<>>) :
              now \in Seconds, pad \in {0, TranscriptLimit},
              c \in {<<<<>>, <<>>, <<>>>>,
                     <<<<Item("t1", MISSING, P_high, D_jan)>>, <<"d1">>, <<>>>>,
                     <<<<SarahItem>>, <<>>, <<>>>>,
                     <<<<>>, <<>>, <<"Acme">>>>}}
      [] sc = "concurrent" ->
           {Analysis(mid, "A", c[1], <<>>, c[2], c[3], NoInvite) :
              mid \in {"m1", "m2"},
              c \in {<<<<>>, <<>>, <<>>>>,
                     <<<<SarahItem>>, <<>>, <<>>>>,
                     <<<<>>, <<"Acme">>, <<>>>>,
                     <<<<>>, <<>>, <<"Phoenix">>>>}}

\* The analyses Gemini returns to process_audio_file: _validate_analysis
\* asks for the keys, not for the types of their values
PipelineAnalyses(sc) ==
    IF sc = "pipeline"
    THEN {[Analysis(NULL, NULL, <<>>, <<>>, cl, <<>>, NoInvite) EXCEPT !.mentionedPeople = mp] :
            cl \in {<<>>, <<"Acme">>},
            mp \in {People(<<>>), People(<<"p1">>), NullPeople}}
    ELSE {}

\* the timestamp and file name part of a generated meeting id
Stamps(sc) == IF sc = "pipeline" THEN {"m1", "m2"} ELSE {}

Scenarios == {"validation", "clients", "projects", "persons", "order", "full",
              "defaults", "tool", "resolver", "roles", "pipeline"}

\* the scenarios of the team tools
TeamScenarios == {"health", "blockers"}

\* ------------------------------------------------------------------ state
VARIABLES
    scenario,    \* which family of records this behaviour stores
    committed,   \* the committed graph: [n, e]
    nextId,      \* the database's next unused node id
    tx,          \* per caller: the store_meeting_data call in progress
    calls,       \* store_meeting_data calls started so far
    tenant_id,   \* config.app.tenant_id
    q,           \* the query call in progress: its arguments and its result
    solo,        \* per tenant: the graph had only that tenant's calls run
    svc,         \* the construction of the Neo4jService object
    adk          \* the AdkStreamHandler object and its start_session generators

vars == <<scenario, committed, nextId, tx, calls, tenant_id, q, solo, svc, adk>>

UNSET == "unset"
NoQuery == [op |-> "none"]
NoRecord == [meetingId |-> NULL]

\* pre and preId remember the committed graph and the next id at the start
\* of the call
\* via names the caller; last is the last tuple process_audio_file yielded
NoYield == [stage |-> "none", status |-> "none", analysis |-> FALSE]
Yield(stage, status, analysis) == [stage |-> stage, status |-> status, analysis |-> analysis]

\* The eleven CREATE INDEX statements of _create_indexes, by position
IndexCount == 11
Indexes == 1..IndexCount

\* Neo4jService.__init__: pc is the point reached, connected whether
\* verify_connectivity has returned, ran the number of index statements
\* issued, indexes the indexes in place, warned whether _create_indexes
\* logged its warning
NotConstructed == [pc |-> "new", connected |-> FALSE, ran |-> 0, indexes |-> {},
                   warned |-> FALSE]
Constructed == [pc |-> "ready", connected |-> TRUE, ran |-> IndexCount,
                indexes |-> Indexes, warned |-> FALSE]

\* AdkStreamHandler.__init__. gens are the generators start_session returned:
\* "created" before the first step, "live" inside the event loop, "error"
\* suspended at the yield of the error event, "done", or "raised" for the
\* RuntimeError. session is the generator whose LiveSession self.session
\* is, said the length of its transcript buffer, sent the messages put on
\* the queue; overlapped remembers the generators whose first step ran
\* while another stream was in progress
MaxStreams == 3
MaxSent == 2
NewHandler == [is_running |-> FALSE, queue |-> "none", session |-> 0, said |-> 0,
               gens |-> [i \in 1..MaxStreams |-> "none"], sent |-> 0,
               overlapped |-> {}, raised |-> "none"]

Idle == [pc |-> "idle", a |-> NoRecord, k |-> 0, dn |-> <<>>, de |-> {},
         result |-> "none", err |-> "none", dbCalls |-> 0,
         pre |-> [n |-> <<>>, e |-> {}], preId |-> 0,
         via |-> "direct", last |-> NoYield]

\* What the statements of caller p see: the committed graph overlaid with
\* the caller's own uncommitted writes
View(p) ==
    [n |-> tx[p].dn @@ committed.n, e |-> committed.e \cup tx[p].de, next |-> nextId]

\* -------------------------------------------------------------- queries
\* MATCH (p:Person {name, tenantId})-[:ASSIGNED_TO]->(a:ActionItem {tenantId})
\* MATCH (m:Meeting {tenantId})-[:HAS_ACTION_ITEM]->(a): one row per pair of an
\* ASSIGNED_TO and a HAS_ACTION_ITEM relationship that meet in the action item
ActionItemRows(g, t, name) ==
    LET A == {e \in g.e : /\ e[1] = "ASSIGNED_TO"
                          /\ e[2] \in TenantNodes(g, "Person", t)
                          /\ g.n[e[2]].name = name
                          /\ e[3] \in TenantNodes(g, "ActionItem", t)}
        H == {f \in g.e : /\ f[1] = "HAS_ACTION_ITEM"
                          /\ f[2] \in TenantNodes(g, "Meeting", t)}
    IN {r \in A \X H : r[1][3] = r[2][3]}

\* ORDER BY a.priority DESC, a.dueDate; rows the clause leaves tied are taken
\* in the order of their relationship ids
ItemBefore(g, r, s) ==
    LET x == g.n[r[1][3]]
        y == g.n[s[1][3]]
    IN IF x.priority # y.priority THEN StrLess(y.priority, x.priority)
       ELSE IF x.dueDate # y.dueDate THEN StrLess(x.dueDate, y.dueDate)
       ELSE TupleLess(<<r[1][4], r[2][4]>>, <<s[1][4], s[2][4]>>)

RECURSIVE SortItemRows(_, _)
SortItemRows(g, R) ==
    IF R = {} THEN <<>>
    ELSE LET first == CHOOSE r \in R : \A s \in R \ {r} : ItemBefore(g, r, s)
         IN <<first>> \o SortItemRows(g, R \ {first})

\* get_action_items_by_person: the rows it returns, in order
ActionItemsByPerson(g, t, name) ==
    LET rows == SortItemRows(g, ActionItemRows(g, t, name))
    IN [i \in 1..Len(rows) |->
          [task |-> g.n[rows[i][1][3]].task,
           dueDate |-> g.n[rows[i][1][3]].dueDate,
           priority |-> g.n[rows[i][1][3]].priority,
           meetingId |-> g.n[rows[i][2][2]].meetingId]]

\* ORDER BY m.processingTimestamp DESC over relationships whose source is the
\* meeting m; ties in the order of the relationship ids
MeetingEdgeBefore(g, e, f) ==
    IF g.n[e[2]].processingTimestamp # g.n[f[2]].processingTimestamp
    THEN g.n[e[2]].processingTimestamp > g.n[f[2]].processingTimestamp
    ELSE e[4] < f[4]

RECURSIVE SortMeetingEdges(_, _)
SortMeetingEdges(g, E) ==
    IF E = {} THEN <<>>
    ELSE LET first == CHOOSE e \in E : \A f \in E \ {e} : MeetingEdgeBefore(g, e, f)
         IN <<first>> \o SortMeetingEdges(g, E \ {first})

MeetingRow(g, m) == [meetingId |-> g.n[m].meetingId, title |-> g.n[m].title]

\* get_meetings_by_project: one row per RELATES_TO_PROJECT relationship
MeetingsByProject(g, t, name) ==
    LET E == {e \in g.e : /\ e[1] = "RELATES_TO_PROJECT"
                          /\ e[2] \in TenantNodes(g, "Meeting", t)
                          /\ e[3] \in TenantNodes(g, "Project", t)
                          /\ g.n[e[3]].name = name}
        rows == SortMeetingEdges(g, E)
    IN [i \in 1..Len(rows) |-> MeetingRow(g, rows[i][2])]

\* ORDER BY m.processingTimestamp DESC over meeting nodes
MeetingBefore(g, x, y) ==
    IF g.n[x].processingTimestamp # g.n[y].processingTimestamp
    THEN g.n[x].processingTimestamp > g.n[y].processingTimestamp
    ELSE x < y

RECURSIVE SortMeetings(_, _)
SortMeetings(g, M) ==
    IF M = {} THEN <<>>
    ELSE LET first == CHOOSE m \in M : \A o \in M \ {m} : MeetingBefore(g, m, o)
         IN <<first>> \o SortMeetings(g, M \ {first})

\* search_meetings: CONTAINS on title, summary or transcript, then LIMIT
MeetingsMatching(g, t, term, limit) ==
    LET M == {m \in TenantNodes(g, "Meeting", t) :
                \/ Contains(g.n[m].title, term)
                \/ Contains(g.n[m].summary, term)
                \/ TextContains(g.n[m].transcript, term)}
        rows == SortMeetings(g, M)
        n == IF Len(rows) < limit THEN Len(rows) ELSE limit
    IN [i \in 1..n |-> MeetingRow(g, rows[i])]

\* n.key in Cypher: null for a property the node does not have
Prop(node, key) == IF key \in DOMAIN node THEN node[key] ELSE NULL

\* WHERE m.transcript CONTAINS $topic AND m.meetingDate >= $cutoff, the dates
\* compared as strings; a null meetingDate matches nothing
HistoryMeetings(g, t, topic, cutoff) ==
    {m \in TenantNodes(g, "Meeting", t) :
        /\ TextContains(g.n[m].transcript, topic)
        /\ g.n[m].meetingDate # NoneS
        /\ ~StrLess(g.n[m].meetingDate, cutoff)}

\* the grouping key of the RETURN: m.title, m.meetingDate, m.summary
HistoryKey(g, m) ==
    [meetingTitle |-> g.n[m].title, date |-> g.n[m].meetingDate,
     summary |-> g.n[m].summary]

\* OPTIONAL MATCH (m)-[:etype]->(x:label {tenantId}) for the meetings in M
HistoryLinked(g, t, M, etype, label) ==
    {e[3] : e \in {e \in g.e : /\ e[1] = etype /\ e[2] \in M
                               /\ e[3] \in TenantNodes(g, label, t)}}

\* COLLECT(DISTINCT x.key): the distinct non-null values
CollectDistinct(g, X, key) == {Prop(g.n[x], key) : x \in X} \ {NULL}

\* one returned record: COLLECT(DISTINCT d.decision), COLLECT(DISTINCT a.task)
\* over the rows that share the grouping key
HistoryRow(g, t, M, k) ==
    LET G == {m \in M : HistoryKey(g, m) = k}
    IN [meetingTitle |-> k.meetingTitle, date |-> k.date, summary |-> k.summary,
        decisions |-> CollectDistinct(g, HistoryLinked(g, t, G, "HAS_DECISION", "Decision"),
                                      "decision"),
        actionItems |-> CollectDistinct(g, HistoryLinked(g, t, G, "HAS_ACTION_ITEM",
                                                         "ActionItem"), "task")]

\* ORDER BY m.meetingDate DESC; records of one date in the order their
\* first meeting was matched
HistoryFirst(g, M, k) == CHOOSE m \in M : HistoryKey(g, m) = k /\
                             \A o \in M : HistoryKey(g, o) = k => m <= o

HistoryBefore(g, M, x, y) ==
    IF x.date # y.date THEN StrLess(y.date, x.date)
    ELSE HistoryFirst(g, M, x) < HistoryFirst(g, M, y)

RECURSIVE SortHistory(_, _, _)
SortHistory(g, M, K) ==
    IF K = {} THEN <<>>
    ELSE LET first == CHOOSE k \in K : \A o \in K \ {k} : HistoryBefore(g, M, k, o)
         IN <<first>> \o SortHistory(g, M, K \ {first})

HistoryLimit == 5

\* the records of the query of get_historical_context
HistoricalContext(g, t, topic, cutoff) ==
    LET M == HistoryMeetings(g, t, topic, cutoff)
        keys == SortHistory(g, M, {HistoryKey(g, m) : m \in M})
        n == IF Len(keys) < HistoryLimit THEN Len(keys) ELSE HistoryLimit
    IN [i \in 1..n |-> HistoryRow(g, t, M, keys[i])]

\* what get_historical_context formats of its records: per meeting the
\* title and date, whether a "Key Decisions" block is written, and the number
\* of related actions (0 when the line is left out); empty texts are dropped
HistoryText(rows) ==
    [i \in 1..Len(rows) |->
        [meetingTitle |-> rows[i].meetingTitle, date |-> rows[i].date,
         keyDecisions |-> (rows[i].decisions \ {""}) # {},
         relatedActions |-> Cardinality(rows[i].actionItems \ {""})]]

HistoryResult(rows) == [kind |-> "history", rows |-> rows, text |-> HistoryText(rows)]
ErrorText == [kind |-> "error"]

\* MATCH (p:Person {tenantId})-[:ASSIGNED_TO]->(a:ActionItem {tenantId}): one
\* row per relationship
AssignedRows(g, t) ==
    {e \in g.e : /\ e[1] = "ASSIGNED_TO"
                 /\ e[2] \in TenantNodes(g, "Person", t)
                 /\ e[3] \in TenantNodes(g, "ActionItem", t)}

\* SUM(CASE WHEN a.key = val THEN 1 ELSE 0 END) over rows R
CountWhere(g, R, key, val) == Cardinality({e \in R : Prop(g.n[e[3]], key) = val})

\* the record of one person: the aggregates are grouped by p.name
TeamMetric(g, t, name) ==
    LET R == {e \in AssignedRows(g, t) : g.n[e[2]].name = name}
    IN [person |-> name,
        totalTasks |-> Cardinality(R),
        blockedTasks |-> CountWhere(g, R, "status", St_blocked),
        completedTasks |-> CountWhere(g, R, "status", St_completed),
        highPriorityTasks |-> CountWhere(g, R, "priority", P_high)]

\* ORDER BY totalTasks DESC; the order of persons with equal totals is not
\* defined: by name, ascending or descending
MetricBefore(x, y, rev) ==
    IF x.totalTasks # y.totalTasks THEN x.totalTasks > y.totalTasks
    ELSE IF rev THEN StrLess(y.person, x.person) ELSE StrLess(x.person, y.person)

RECURSIVE SortMetrics(_, _)
SortMetrics(M, rev) ==
    IF M = {} THEN <<>>
    ELSE LET first == CHOOSE m \in M : \A o \in M \ {m} : MetricBefore(m, o, rev)
         IN <<first>> \o SortMetrics(M \ {first}, rev)

\* team_metrics: the records of the query of analyze_team_health
TeamMetrics(g, t, rev) ==
    SortMetrics({TeamMetric(g, t, g.n[e[2]].name) : e \in AssignedRows(g, t)}, rev)

RECURSIVE SumOf(_, _)
SumOf(metrics, key) ==
    IF metrics = <<>> THEN 0 ELSE Head(metrics)[key] + SumOf(Tail(metrics), key)

CriticalRate == 30
WarningRate == 15
OverloadLimit == 10
WorkloadShown == 5

\* blocked / total * 100 > pct. The quotient and the product are doubles;
\* for every total up to 3000 the double compares with 30 and with 15 as the
\* exact quotient does, so the comparison is made on the integers. The rate
\* is 0 when total is 0.
RateAbove(blocked, total, pct) == total > 0 /\ 100 * blocked > pct * total

\* ">=" in place of ">"
HealthStatus_AtLeast(blocked, total) ==
    IF total > 0 /\ 100 * blocked >= CriticalRate * total THEN "CRITICAL"
    ELSE IF total > 0 /\ 100 * blocked >= WarningRate * total THEN "WARNING"
    ELSE "HEALTHY"

\* health_status of analyze_team_health
HealthStatus(blocked, total) ==
    IF RateAbove(blocked, total, CriticalRate) THEN "CRITICAL"
    ELSE IF RateAbove(blocked, total, WarningRate) THEN "WARNING"
    ELSE "HEALTHY"

\* the members the workload loop visits: team_metrics[:5]
Visited(metrics) ==
    SubSeq(metrics, 1, IF Len(metrics) < WorkloadShown THEN Len(metrics) ELSE WorkloadShown)

\* the persons appended to overloaded
Overloaded(metrics) ==
    {Visited(metrics)[i].person :
       i \in {j \in 1..Len(Visited(metrics)) : Visited(metrics)[j].totalTasks > OverloadLimit}}

NoMetrics == [kind |-> "none"]

\* what analyze_team_health reports of team_metrics
TeamHealth(metrics) ==
    IF metrics = <<>> THEN NoMetrics
    ELSE [kind |-> "health", metrics |-> metrics,
          status |-> HealthStatus(SumOf(metrics, "blockedTasks"), SumOf(metrics, "totalTasks")),
          total |-> SumOf(metrics, "totalTasks"),
          blocked |-> SumOf(metrics, "blockedTasks"),
          overloaded |-> Overloaded(metrics)]

\* MATCH (a:ActionItem {tenantId})
\* WHERE a.status = 'blocked' OR size(a.blockers) > 0
BlockedItems(g, t) ==
    {a \in TenantNodes(g, "ActionItem", t) :
        g.n[a].status = St_blocked \/ Len(g.n[a].blockers) > 0}

\* OPTIONAL MATCH (x:label {tenantId})-[:etype]->(a): the relationships, or
\* one null (0) when there is none
OptionalInto(g, t, a, etype, label) ==
    LET E == {e \in g.e : e[1] = etype /\ e[3] = a /\ e[2] \in TenantNodes(g, label, t)}
    IN IF E = {} THEN {<<etype, 0, a, 0>>} ELSE E

\* the rows of find_blockers before ORDER BY: <<a, meeting relationship,
\* person relationship>>
BlockerRows(g, t) ==
    UNION {{<<a, m, p>> : m \in OptionalInto(g, t, a, "HAS_ACTION_ITEM", "Meeting"),
                           p \in OptionalInto(g, t, a, "ASSIGNED_TO", "Person")} :
             a \in BlockedItems(g, t)}

\* CASE a.priority WHEN 'high' THEN 1 WHEN 'medium' THEN 2 ELSE 3 END
BlockerRank(pr) == IF pr = P_high THEN 1 ELSE IF pr = P_medium THEN 2 ELSE 3

\* the order of rows of one rank is not defined: by the ids of the row,
\* ascending or descending
BlockerBefore(g, r, s, rev) ==
    LET x == BlockerRank(g.n[r[1]].priority)
        y == BlockerRank(g.n[s[1]].priority)
        kr == <<r[1], r[2][4], r[3][4]>>
        ks == <<s[1], s[2][4], s[3][4]>>
    IN IF x # y THEN x < y
       ELSE IF rev THEN TupleLess(ks, kr) ELSE TupleLess(kr, ks)

RECURSIVE SortBlockers(_, _, _)
SortBlockers(g, R, rev) ==
    IF R = {} THEN <<>>
    ELSE LET first == CHOOSE r \in R : \A o \in R \ {r} : BlockerBefore(g, r, o, rev)
         IN <<first>> \o SortBlockers(g, R \ {first}, rev)

BlockerLimit == 10

\* blocked_items: the records of the query of find_blockers
FindBlockers(g, t, rev) ==
    LET rows == SortBlockers(g, BlockerRows(g, t), rev)
        n == IF Len(rows) < BlockerLimit THEN Len(rows) ELSE BlockerLimit
    IN [i \in 1..n |->
          [task |-> g.n[rows[i][1]].task,
           assignee |-> g.n[rows[i][1]].assignee,
           blockers |-> g.n[rows[i][1]].blockers,
           priority |-> g.n[rows[i][1]].priority,
           meetingTitle |-> IF rows[i][2][2] = 0 THEN NoneS
                            ELSE g.n[rows[i][2][2]].title]]

BlockersResult(rows) == [kind |-> "blockers", rows |-> rows]

\* (c:Client {tenantId})<-[:DISCUSSED_CLIENT]-(m:Meeting {tenantId}): one row
\* per relationship
ClientRows(g, t) ==
    {e \in g.e : /\ e[1] = "DISCUSSED_CLIENT"
                 /\ e[2] \in TenantNodes(g, "Meeting", t)
                 /\ e[3] \in TenantNodes(g, "Client", t)}

\* RETURN c.name AS clientName, count(m) AS meetingCount
ClientRow(g, t, name) ==
    [clientName |-> name,
     meetingCount |-> Cardinality({e \in ClientRows(g, t) : g.n[e[3]].name = name})]

\* ORDER BY meetingCount DESC over the names in N; tied names in the order of
\* their first relationship
ClientBefore(g, t, x, y) ==
    LET ids(nm) == {e[4] : e \in {f \in ClientRows(g, t) : g.n[f[3]].name = nm}}
        firstEdge(nm) == CHOOSE i \in ids(nm) : \A j \in ids(nm) : i <= j
    IN IF ClientRow(g, t, x).meetingCount # ClientRow(g, t, y).meetingCount
       THEN ClientRow(g, t, x).meetingCount > ClientRow(g, t, y).meetingCount
       ELSE firstEdge(x) < firstEdge(y)

RECURSIVE SortClients(_, _, _)
SortClients(g, t, N) ==
    IF N = {} THEN <<>>
    ELSE LET first == CHOOSE x \in N : \A y \in N \ {x} : ClientBefore(g, t, x, y)
         IN <<ClientRow(g, t, first)>> \o SortClients(g, t, N \ {first})

\* get_client_relationships: one aggregate row per client name that has a
\* meeting; with a name, only that name (the recentMeetings column is left out)
ClientRelationships(g, t, client_name) ==
    LET names == {g.n[e[3]].name : e \in ClientRows(g, t)}
    IN IF client_name # NULL /\ client_name # ""
       THEN SortClients(g, t, names \cap {client_name})
       ELSE SortClients(g, t, names)

ZeroSummary ==
    [meetings |-> 0, people |-> 0, clients |-> 0, projects |-> 0,
     actionItems |-> 0, decisions |-> 0]

\* MATCH (x:label {tenantId}) WITH <columns so far>, count(x) AS col
\* applied to the rows so far: an aggregation grouped by the earlier columns
\* yields no row when the MATCH finds none
SummaryStage(g, t, rows, label, col) ==
    IF TenantNodes(g, label, t) = {} THEN {}
    ELSE {[r EXCEPT ![col] = Cardinality(TenantNodes(g, label, t))] : r \in rows}

ListResult(rows) == [kind |-> "list", rows |-> rows]
DictResult(keys, val) == [kind |-> "dict", keys |-> keys, val |-> val]
Raised == [kind |-> "raised"]

SummaryKeys == {"meetings", "people", "clients", "projects", "actionItems", "decisions"}

\* an empty dict when result.single() is None
KnowledgeGraphSummary_NoRecordEmpty(g, t) ==
    LET s0 == {[ZeroSummary EXCEPT !.meetings = Cardinality(TenantNodes(g, "Meeting", t))]}
        s1 == SummaryStage(g, t, s0, "Person", "people")
        s2 == SummaryStage(g, t, s1, "Client", "clients")
        s3 == SummaryStage(g, t, s2, "Project", "projects")
        s4 == SummaryStage(g, t, s3, "ActionItem", "actionItems")
        s5 == SummaryStage(g, t, s4, "Decision", "decisions")
    IN IF s5 # {} THEN DictResult(SummaryKeys, CHOOSE r \in s5 : TRUE)
       ELSE DictResult({}, ZeroSummary)

\* get_knowledge_graph_summary on a backend that answers: dict(record) when
\* result.single() is a record, else the zero-filled dict
KnowledgeGraphSummary(g, t) ==
    LET s0 == {[ZeroSummary EXCEPT !.meetings = Cardinality(TenantNodes(g, "Meeting", t))]}
        s1 == SummaryStage(g, t, s0, "Person", "people")
        s2 == SummaryStage(g, t, s1, "Client", "clients")
        s3 == SummaryStage(g, t, s2, "Project", "projects")
        s4 == SummaryStage(g, t, s3, "ActionItem", "actionItems")
        s5 == SummaryStage(g, t, s4, "Decision", "decisions")
    IN IF s5 # {} THEN DictResult(SummaryKeys, CHOOSE r \in s5 : TRUE)
       ELSE DictResult(SummaryKeys, ZeroSummary)

\* ------------------------------------------------------ store_meeting_data
\* a check for None only
MeetingIdFalsy_NoneOnly(mid) == mid = NULL

\* if not meeting_id
MeetingIdFalsy(mid) == mid = NULL \/ mid = ""

\* a handler for Neo4jError alone
ExceptResult_Neo4jOnly(kind) ==
    CASE kind = "Neo4jError" -> "false"
      [] kind = "Exception" -> "raised"

\* The value store_meeting_data produces when an exception of the given
\* class reaches its except clauses
ExceptResult(kind) ==
    CASE kind = "Neo4jError" -> "false"
      [] kind = "Exception" -> "false"

\* statements that commit one by one
Rollback_AutoCommit(c, v) == [n |-> v.n, e |-> v.e]

\* The committed graph after the transaction function raised inside
\* session.execute_write: the transaction is rolled back
Rollback(c, v) == c

\* The committed graph after execute_write returned: the writes are published
Publish(c, dn, de) == [n |-> dn @@ c.n, e |-> c.e \cup de]

\* The caller's uncommitted writes, given the view v its statement left
DeltaNodes(v) ==
    [i \in {j \in DOMAIN v.n : j \notin DOMAIN committed.n \/ v.n[j] # committed.n[j]}
       |-> v.n[i]]

\* The ids of a rolled-back transaction are free again, unless another
\* transaction in flight may hold later ones
ReleasedId(p) ==
    IF \A o \in Procs \ {p} : tx[o].pc # "tx" THEN tx[p].preId ELSE nextId

ErrorKinds == {"Neo4jError", "Exception"}

Init ==
    /\ scenario \in Scenarios
    /\ committed = [n |-> <<>>, e |-> {}]
    /\ nextId = 1
    /\ tx = [p \in Procs |-> Idle]
    /\ calls = 0
    /\ tenant_id = UNSET
    /\ q = NoQuery
    /\ solo = [t \in Tenants |-> EmptyGraph]
    /\ svc = Constructed
    /\ adk = NewHandler

InitConcurrent ==
    /\ scenario = "concurrent"
    /\ committed = [n |-> <<>>, e |-> {}]
    /\ nextId = 1
    /\ tx = [p \in Procs |-> Idle]
    /\ calls = 0
    /\ tenant_id = UNSET
    /\ q = NoQuery
    /\ solo = [t \in Tenants |-> EmptyGraph]
    /\ svc = Constructed
    /\ adk = NewHandler

\* store_meeting_data up to the opening of the session and transaction;
\* sequential callers run one call at a time
Call(p, a, sequential) ==
    /\ tx[p].pc = "idle"
    /\ calls < MaxCalls
    /\ q = NoQuery
    /\ svc.pc = "ready"
    /\ sequential => p = 1
    /\ calls' = calls + 1
    /\ LET rec == [a EXCEPT !.processingTimestamp = calls + 1]
       IN tx' = [tx EXCEPT ![p] =
                   IF MeetingIdFalsy(a.meetingId)
                   THEN [Idle EXCEPT !.pc = "done", !.a = rec, !.result = "false",
                                     !.pre = committed, !.preId = nextId]
                   ELSE [Idle EXCEPT !.pc = "tx", !.a = rec, !.k = 1, !.dbCalls = 1,
                                     !.pre = committed, !.preId = nextId]]
    /\ UNCHANGED <<scenario, committed, nextId, tenant_id, q, solo, svc, adk>>

\* one tx.run of the transaction function; a statement the database rejects
\* raises Neo4jError, which ends the call
RunStep(p) ==
    /\ tx[p].pc = "tx"
    /\ tx[p].k <= Len(Stmts(tx[p].a))
    /\ q = NoQuery
    /\ LET a == tx[p].a
           s == Stmts(a)[tx[p].k]
           v == RunStmt(View(p), a, s)
       IN IF StmtRejected(a, s)
          THEN /\ tx' = [tx EXCEPT ![p] = [@ EXCEPT !.pc = "done", !.dn = <<>>, !.de = {},
                                             !.dbCalls = @ + 1, !.err = "Neo4jError",
                                             !.result = ExceptResult("Neo4jError")]]
               /\ committed' = Rollback(committed, View(p))
               /\ nextId' = ReleasedId(p)
          ELSE /\ tx' = [tx EXCEPT ![p] = [@ EXCEPT !.k = @ + 1, !.dn = DeltaNodes(v),
                                             !.de = v.e \ committed.e,
                                             !.dbCalls = @ + 1]]
               /\ nextId' = v.next
               /\ UNCHANGED committed
    /\ UNCHANGED <<scenario, calls, tenant_id, q, solo, svc, adk>>

\* the driver, the session or the database raises at the current statement
\* or at commit
Raise(p, kind) ==
    /\ tx[p].pc = "tx"
    /\ q = NoQuery
    /\ tx' = [tx EXCEPT ![p] = [@ EXCEPT !.pc = "done", !.dn = <<>>, !.de = {},
                                  !.err = kind, !.result = ExceptResult(kind)]]
    /\ committed' = Rollback(committed, View(p))
    /\ nextId' = ReleasedId(p)
    /\ UNCHANGED <<scenario, calls, tenant_id, q, solo, svc, adk>>

\* execute_write returns: the transaction commits and the call returns True
Commit(p) ==
    /\ tx[p].pc = "tx"
    /\ tx[p].k > Len(Stmts(tx[p].a))
    /\ q = NoQuery
    /\ committed' = Publish(committed, tx[p].dn, tx[p].de)
    /\ tx' = [tx EXCEPT ![p] = [@ EXCEPT !.pc = "done", !.dn = <<>>, !.de = {},
                                  !.result = "true"]]
    /\ solo' = [t \in Tenants |->
                  IF t = tx[p].a.tenantId THEN RunFrom(solo[t], tx[p].a, 1) ELSE solo[t]]
    /\ UNCHANGED <<scenario, nextId, calls, tenant_id, q, svc, adk>>

\* _format_success_message takes len() of the three lists the analysis has
FormatRaises(a) == a.mentionedPeople.none

\* The last tuple of process_audio_file after step 3: the success or warning
\* message with the analysis; a raise while the message is formatted is
\* caught by the inner handler, whose own message raises again, and the
\* outer handler yields the error message with None
LastYield(a, outcome) ==
    IF FormatRaises(a) THEN Yield("final", "error", FALSE)
    ELSE Yield("final", IF outcome \in {"true", "skipped"} THEN "success" ELSE "warning", TRUE)

\* process_audio_file up to the upload: the file is validated and the
\* meeting id is generated from the tenant current now. (Without a tenant
\* _generate_meeting_id raises and the error tuple is the only yield.)
PipelineStart(p, stamp) ==
    /\ tx[p].pc = "idle"
    /\ calls < MaxCalls
    /\ q = NoQuery
    /\ svc.pc = "ready"
    /\ p = 1
    /\ tenant_id # UNSET
    /\ calls' = calls + 1
    /\ tx' = [tx EXCEPT ![p] =
                [Idle EXCEPT !.pc = "analyzing", !.via = "pipeline",
                             !.a = [meetingId |-> GenerateMeetingId(tenant_id, stamp)],
                             !.last = Yield("uploading", "progress", FALSE)]]
    /\ UNCHANGED <<scenario, committed, nextId, tenant_id, q, solo, svc, adk>>

\* process_audio_file once upload and analysis have succeeded: the analysis
\* is enriched with the meeting id and the tenant current now, yielded with
\* the "storing" message and handed to store_meeting_data, or with Neo4j
\* disabled not stored
ProcessAudioFile(p, analysis, neo4j_enabled) ==
    /\ tx[p].pc = "analyzing"
    /\ q = NoQuery
    /\ LET rec == [PipelineRecord(analysis, tx[p].a.meetingId, tenant_id)
                     EXCEPT !.processingTimestamp = calls]
           begun == [Idle EXCEPT !.a = rec, !.pre = committed, !.preId = nextId,
                                 !.via = "pipeline"]
       IN tx' = [tx EXCEPT ![p] =
                   IF ~neo4j_enabled
                   THEN [begun EXCEPT !.pc = "skipped"]
                   ELSE IF MeetingIdFalsy(rec.meetingId)
                   THEN [begun EXCEPT !.pc = "done", !.result = "false",
                                      !.last = Yield("storing", "progress", TRUE)]
                   ELSE [begun EXCEPT !.pc = "tx", !.k = 1, !.dbCalls = 1,
                                      !.last = Yield("storing", "progress", TRUE)]]
    /\ UNCHANGED <<scenario, committed, nextId, calls, tenant_id, q, solo, svc, adk>>

\* process_audio_file after store_meeting_data has returned, or after the
\* branch that skips it: its last yield
PipelineFinish(p) ==
    /\ tx[p].pc \in {"done", "skipped"}
    /\ tx[p].via = "pipeline"
    /\ tx[p].last.stage # "final"
    /\ q = NoQuery
    /\ tx' = [tx EXCEPT ![p] =
                [@ EXCEPT !.last = LastYield(tx[p].a, IF tx[p].pc = "skipped" THEN "skipped"
                                                      ELSE tx[p].result)]]
    /\ UNCHANGED <<scenario, committed, nextId, calls, tenant_id, q, solo, svc, adk>>

\* the caller has its result
Return(p) ==
    /\ tx[p].pc \in {"done", "skipped"}
    /\ tx[p].via = "pipeline" => tx[p].last.stage = "final"
    /\ q = NoQuery
    /\ tx' = [tx EXCEPT ![p] = Idle]
    /\ UNCHANGED <<scenario, committed, nextId, calls, tenant_id, q, solo, svc, adk>>

\* handle_username_entry with a valid username
HandleUsernameEntry(username) ==
    /\ q = NoQuery
    /\ tenant_id # username
    /\ tenant_id' = username
    /\ UNCHANGED <<scenario, committed, nextId, tx, calls, q, solo, svc, adk>>

\* ------------------------------------------------------------ query calls
\* Reading config.app.tenant_id before handle_username_entry has assigned it
\* raises AttributeError
TenantReadable == tenant_id # UNSET

get_action_items_by_person(person_name, fails) ==
    /\ q = NoQuery
    /\ svc.pc = "ready"
    /\ q' = [op |-> "get_action_items_by_person", tenant |-> tenant_id,
             arg |-> person_name, failed |-> fails \/ ~TenantReadable,
             res |-> IF fails \/ ~TenantReadable THEN ListResult(<<>>)
                     ELSE ListResult(ActionItemsByPerson(committed, tenant_id, person_name))]
    /\ UNCHANGED <<scenario, committed, nextId, tx, calls, tenant_id, solo, svc, adk>>

get_meetings_by_project(project_name, fails) ==
    /\ q = NoQuery
    /\ svc.pc = "ready"
    /\ q' = [op |-> "get_meetings_by_project", tenant |-> tenant_id,
             arg |-> project_name, failed |-> fails \/ ~TenantReadable,
             res |-> IF fails \/ ~TenantReadable THEN ListResult(<<>>)
                     ELSE ListResult(MeetingsByProject(committed, tenant_id, project_name))]
    /\ UNCHANGED <<scenario, committed, nextId, tx, calls, tenant_id, solo, svc, adk>>

\* params is built from config.app.tenant_id before the try block
get_client_relationships(client_name, fails) ==
    /\ q = NoQuery
    /\ svc.pc = "ready"
    /\ q' = [op |-> "get_client_relationships", tenant |-> tenant_id,
             arg |-> client_name, failed |-> fails \/ ~TenantReadable,
             res |-> IF ~TenantReadable THEN Raised
                     ELSE IF fails THEN ListResult(<<>>)
                     ELSE ListResult(ClientRelationships(committed, tenant_id, client_name))]
    /\ UNCHANGED <<scenario, committed, nextId, tx, calls, tenant_id, solo, svc, adk>>

get_knowledge_graph_summary(fails) ==
    /\ q = NoQuery
    /\ svc.pc = "ready"
    /\ q' = [op |-> "get_knowledge_graph_summary", tenant |-> tenant_id,
             arg |-> NULL, failed |-> fails \/ ~TenantReadable,
             res |-> IF fails \/ ~TenantReadable THEN DictResult({}, ZeroSummary)
                     ELSE KnowledgeGraphSummary(committed, tenant_id)]
    /\ UNCHANGED <<scenario, committed, nextId, tx, calls, tenant_id, solo, svc, adk>>

search_meetings(search_term, limit, fails) ==
    /\ q = NoQuery
    /\ svc.pc = "ready"
    /\ q' = [op |-> "search_meetings", tenant |-> tenant_id,
             arg |-> <<search_term, limit>>, failed |-> fails \/ ~TenantReadable,
             res |-> IF fails \/ ~TenantReadable THEN ListResult(<<>>)
                     ELSE ListResult(MeetingsMatching(committed, tenant_id,
                                                      search_term, limit))]
    /\ UNCHANGED <<scenario, committed, nextId, tx, calls, tenant_id, solo, svc, adk>>

\* get_historical_context(topic, time_range_days): cutoff is the ISO text of
\* now - time_range_days; any raise, the read of the ambient tenant included,
\* is caught and an "Error: ..." text is returned
get_historical_context(topic, cutoff, fails) ==
    /\ q = NoQuery
    /\ svc.pc = "ready"
    /\ q' = [op |-> "get_historical_context", tenant |-> tenant_id,
             arg |-> <<topic, cutoff>>, failed |-> fails \/ ~TenantReadable,
             res |-> IF fails \/ ~TenantReadable THEN ErrorText
                     ELSE HistoryResult(HistoricalContext(committed, tenant_id,
                                                          topic, cutoff))]
    /\ UNCHANGED <<scenario, committed, nextId, tx, calls, tenant_id, solo, svc, adk>>

\* analyze_team_health(): any raise, the read of the ambient tenant
\* included, is caught and an "Error: ..." text is returned
analyze_team_health(rev, fails) ==
    /\ q = NoQuery
    /\ svc.pc = "ready"
    /\ q' = [op |-> "analyze_team_health", tenant |-> tenant_id,
             arg |-> rev, failed |-> fails \/ ~TenantReadable,
             res |-> IF fails \/ ~TenantReadable THEN ErrorText
                     ELSE TeamHealth(TeamMetrics(committed, tenant_id, rev))]
    /\ UNCHANGED <<scenario, committed, nextId, tx, calls, tenant_id, solo, svc, adk>>

\* find_blockers(): a raise of the session or of the read of the ambient
\* tenant is caught and an "Error finding blockers: ..." text is returned
find_blockers(rev, fails) ==
    /\ q = NoQuery
    /\ svc.pc = "ready"
    /\ q' = [op |-> "find_blockers", tenant |-> tenant_id,
             arg |-> rev, failed |-> fails \/ ~TenantReadable,
             res |-> IF fails \/ ~TenantReadable THEN ErrorText
                     ELSE BlockersResult(FindBlockers(committed, tenant_id, rev))]
    /\ UNCHANGED <<scenario, committed, nextId, tx, calls, tenant_id, solo, svc, adk>>

\* the query call returns to its caller
QueryReturn ==
    /\ q # NoQuery
    /\ q' = NoQuery
    /\ UNCHANGED <<scenario, committed, nextId, tx, calls, tenant_id, solo, svc, adk>>

\* The query calls and the usernames tried in each scenario
PersonQueries(sc) ==
    CASE sc = "persons" -> {Sarah, SarahConnor}
      [] sc = "order" -> {Bob}
      [] sc \in {"full", "service"} -> {Sarah}
      [] OTHER -> {}

ProjectQueries(sc) == IF sc \in {"projects", "full"} THEN {"Phoenix"} ELSE {}

ClientQueries(sc) ==
    CASE sc \in {"clients", "concurrent"} -> {"Acme", NULL}
      [] sc \in {"validation", "full", "service"} -> {"Acme"}
      [] OTHER -> {}

SummaryQueries(sc) ==
    IF sc \in {"validation", "full", "concurrent", "tool"} THEN {NULL} ELSE {}

SearchLimits(sc) ==
    CASE sc = "full" -> {1, 10}
      [] sc \in {"defaults", "tool"} -> {10}
      [] OTHER -> {}

HistoryCutoffs(sc) ==
    CASE sc = "full" -> {D_jan}
      [] sc \in {"defaults", "tool"} -> {D_feb}
      [] OTHER -> {}

HealthQueries(sc) == IF sc \in {"health", "roles"} THEN BOOLEAN ELSE {}

BlockerQueries(sc) == IF sc \in {"blockers", "order"} THEN BOOLEAN ELSE {}

ScenarioUsers(sc) ==
    IF sc \in {"persons", "order", "concurrent", "defaults", "resolver", "roles",
              "health", "blockers", "service"}
    THEN {"A"} ELSE Tenants

Queries ==
    \/ \E name \in PersonQueries(scenario), fails \in BOOLEAN :
           get_action_items_by_person(name, fails)
    \/ \E name \in ProjectQueries(scenario), fails \in BOOLEAN :
           get_meetings_by_project(name, fails)
    \/ \E name \in ClientQueries(scenario), fails \in BOOLEAN :
           get_client_relationships(name, fails)
    \/ \E x \in SummaryQueries(scenario), fails \in BOOLEAN :
           get_knowledge_graph_summary(fails)
    \/ \E limit \in SearchLimits(scenario), fails \in BOOLEAN :
           search_meetings(<<84>>, limit, fails)
    \/ \E cutoff \in HistoryCutoffs(scenario), fails \in BOOLEAN :
           get_historical_context(<<84>>, cutoff, fails)
    \/ \E rev \in HealthQueries(scenario), fails \in BOOLEAN :
           analyze_team_health(rev, fails)
    \/ \E rev \in BlockerQueries(scenario), fails \in BOOLEAN :
           find_blockers(rev, fails)
    \/ QueryReturn

\* ------------------------------------------------------- specifications
\* one caller at a time
Next ==
    \/ \E a \in ScenarioAnalyses(scenario) : Call(1, a, TRUE)
    \/ \E stamp \in Stamps(scenario) : PipelineStart(1, stamp)
    \/ \E a \in PipelineAnalyses(scenario), enabled \in BOOLEAN : ProcessAudioFile(1, a, enabled)
    \/ \E p \in Procs : PipelineFinish(p)
    \/ \E p \in Procs : RunStep(p)
    \/ \E p \in Procs, kind \in ErrorKinds : Raise(p, kind)
    \/ \E p \in Procs : Commit(p)
    \/ \E p \in Procs : Return(p)
    \/ \E u \in ScenarioUsers(scenario) : HandleUsernameEntry(u)
    \/ Queries

Spec == Init /\ [][Next]_vars

\* the team tools over stored meetings
InitTeam ==
    /\ scenario \in TeamScenarios
    /\ committed = [n |-> <<>>, e |-> {}]
    /\ nextId = 1
    /\ tx = [p \in Procs |-> Idle]
    /\ calls = 0
    /\ tenant_id = UNSET
    /\ q = NoQuery
    /\ solo = [t \in Tenants |-> EmptyGraph]
    /\ svc = Constructed
    /\ adk = NewHandler

NextTeam ==
    \/ \E a \in ScenarioAnalyses(scenario) : Call(1, a, TRUE)
    \/ \E p \in Procs : RunStep(p)
    \/ \E p \in Procs : Commit(p)
    \/ \E p \in Procs : Return(p)
    \/ \E u \in ScenarioUsers(scenario) : HandleUsernameEntry(u)
    \/ \E rev \in HealthQueries(scenario), fails \in BOOLEAN :
           analyze_team_health(rev, fails)
    \/ \E rev \in BlockerQueries(scenario), fails \in BOOLEAN :
           find_blockers(rev, fails)
    \/ QueryReturn

SpecTeam == InitTeam /\ [][NextTeam]_vars

\* ------------------------------------------------ Neo4jService.__init__
\* GraphDatabase.driver(...): a raise is logged and raised again
CreateDriver(ok) ==
    /\ svc.pc = "new"
    /\ svc' = [svc EXCEPT !.pc = IF ok THEN "driver" ELSE "raised"]
    /\ UNCHANGED <<scenario, committed, nextId, tx, calls, tenant_id, q, solo, adk>>

\* self.driver.verify_connectivity(), then the call of _create_indexes
VerifyConnectivity(ok) ==
    /\ svc.pc = "driver"
    /\ svc' = IF ok THEN [svc EXCEPT !.pc = "indexing", !.connected = TRUE]
              ELSE [svc EXCEPT !.pc = "raised"]
    /\ UNCHANGED <<scenario, committed, nextId, tx, calls, tenant_id, q, solo, adk>>

\* a failed index statement counted as a failed construction
IndexFailed_Fatal(s) == [s EXCEPT !.pc = "raised", !.ran = @ + 1, !.warned = TRUE]

\* except Exception in _create_indexes: the warning is logged, the loop is
\* left and __init__ returns
IndexFailed(s) == [s EXCEPT !.pc = "ready", !.ran = @ + 1, !.warned = TRUE]

\* session.run(index_query) for the next statement of the list
RunIndexStatement(ok) ==
    /\ svc.pc = "indexing"
    /\ svc.ran < IndexCount
    /\ svc' = IF ok THEN [svc EXCEPT !.ran = @ + 1, !.indexes = @ \cup {svc.ran + 1}]
              ELSE IndexFailed(svc)
    /\ UNCHANGED <<scenario, committed, nextId, tx, calls, tenant_id, q, solo, adk>>

\* the session cannot be opened: no statement is run, the warning is logged
IndexSessionFails ==
    /\ svc.pc = "indexing"
    /\ svc.ran = 0
    /\ svc' = [svc EXCEPT !.pc = "ready", !.warned = TRUE]
    /\ UNCHANGED <<scenario, committed, nextId, tx, calls, tenant_id, q, solo, adk>>

\* the loop has run every statement: _create_indexes and __init__ return
CreateIndexesReturn ==
    /\ svc.pc = "indexing"
    /\ svc.ran = IndexCount
    /\ svc' = [svc EXCEPT !.pc = "ready"]
    /\ UNCHANGED <<scenario, committed, nextId, tx, calls, tenant_id, q, solo, adk>>

InitService ==
    /\ scenario = "service"
    /\ committed = [n |-> <<>>, e |-> {}]
    /\ nextId = 1
    /\ tx = [p \in Procs |-> Idle]
    /\ calls = 0
    /\ tenant_id = UNSET
    /\ q = NoQuery
    /\ solo = [t \in Tenants |-> EmptyGraph]
    /\ svc = NotConstructed
    /\ adk = NewHandler

NextService ==
    \/ \E ok \in BOOLEAN : CreateDriver(ok)
    \/ \E ok \in BOOLEAN : VerifyConnectivity(ok)
    \/ \E ok \in BOOLEAN : RunIndexStatement(ok)
    \/ IndexSessionFails
    \/ CreateIndexesReturn
    \/ \E a \in ScenarioAnalyses(scenario) : Call(1, a, TRUE)
    \/ \E p \in Procs : RunStep(p)
    \/ \E p \in Procs, kind \in ErrorKinds : Raise(p, kind)
    \/ \E p \in Procs : Commit(p)
    \/ \E p \in Procs : Return(p)
    \/ \E u \in ScenarioUsers(scenario) : HandleUsernameEntry(u)
    \/ \E name \in PersonQueries(scenario), fails \in BOOLEAN :
           get_action_items_by_person(name, fails)
    \/ \E name \in ClientQueries(scenario), fails \in BOOLEAN :
           get_client_relationships(name, fails)
    \/ QueryReturn

SpecService == InitService /\ [][NextService]_vars

\* ------------------------------------------------------ AdkStreamHandler
\* the streams in progress: begun and not yet terminated
InProgress(h) == {i \in 1..MaxStreams : h.gens[i] \in {"live", "error"}}

\* start_session(session_id) is called: an async generator is returned and
\* none of its body has run
StartSession(i) ==
    /\ adk.gens[i] = "none"
    /\ \A j \in 1..(i - 1) : adk.gens[j] # "none"
    /\ adk' = [adk EXCEPT !.gens[i] = "created"]
    /\ UNCHANGED <<scenario, committed, nextId, tx, calls, tenant_id, q, solo, svc>>

\* the first step of the generator: the is_running guard, then is_running,
\* session and live_request_queue are assigned and run_live is started; a
\* raise of get_runner or run_live is caught and the error event is yielded
Begin(h, i, ok) ==
    IF h.is_running
    THEN [h EXCEPT !.gens[i] = "raised",
                   !.overlapped = IF InProgress(h) # {} THEN @ \cup {i} ELSE @]
    ELSE [h EXCEPT !.is_running = TRUE, !.session = i, !.said = 0, !.queue = "open",
                   !.gens[i] = IF ok THEN "live" ELSE "error",
                   !.overlapped = IF InProgress(h) # {} THEN @ \cup {i} ELSE @]

StreamBegin(i, ok) ==
    /\ adk.gens[i] = "created"
    /\ adk' = Begin(adk, i, ok)
    /\ UNCHANGED <<scenario, committed, nextId, tx, calls, tenant_id, q, solo, svc>>

\* an event with text is processed: it is added to self.session
StreamEvent(i) ==
    /\ adk.gens[i] = "live"
    /\ adk.said < MaxSent
    /\ adk' = [adk EXCEPT !.said = @ + 1]
    /\ UNCHANGED <<scenario, committed, nextId, tx, calls, tenant_id, q, solo, svc>>

\* the event loop raises: the error event is yielded
StreamFail(i) ==
    /\ adk.gens[i] = "live"
    /\ adk' = [adk EXCEPT !.gens[i] = "error"]
    /\ UNCHANGED <<scenario, committed, nextId, tx, calls, tenant_id, q, solo, svc>>

\* the stream terminates: live_events is exhausted, the generator is resumed
\* after its error event, or it is closed by its consumer; finally runs
StreamEnd(i) ==
    /\ adk.gens[i] \in {"live", "error"}
    /\ adk' = [adk EXCEPT !.gens[i] = "done", !.is_running = FALSE]
    /\ UNCHANGED <<scenario, committed, nextId, tx, calls, tenant_id, q, solo, svc>>

\* send_audio(audio_data): RuntimeError without a queue, else the message is
\* put; a raise of put is logged
send_audio(ok) ==
    /\ adk.sent < MaxSent
    /\ adk' = IF adk.queue = "none" THEN [adk EXCEPT !.raised = "send_audio"]
              ELSE [adk EXCEPT !.sent = IF ok /\ adk.queue = "open" THEN @ + 1 ELSE @,
                               !.raised = "none"]
    /\ UNCHANGED <<scenario, committed, nextId, tx, calls, tenant_id, q, solo, svc>>

\* send_text(text): as send_audio, after the text is added to self.session
send_text(ok) ==
    /\ adk.sent < MaxSent
    /\ adk' = IF adk.queue = "none" THEN [adk EXCEPT !.raised = "send_text"]
              ELSE [adk EXCEPT !.said = IF @ < MaxSent THEN @ + 1 ELSE @,
                               !.sent = IF ok /\ adk.queue = "open" THEN @ + 1 ELSE @,
                               !.raised = "none"]
    /\ UNCHANGED <<scenario, committed, nextId, tx, calls, tenant_id, q, solo, svc>>

\* end_session(): the queue, if there is one, is closed, then is_running is
\* cleared; a raise of close leaves is_running as it is
end_session(ok) ==
    /\ adk' = IF adk.queue = "none" THEN [adk EXCEPT !.is_running = FALSE, !.raised = "none"]
              ELSE IF ok THEN [adk EXCEPT !.queue = "closed", !.is_running = FALSE,
                                          !.raised = "none"]
              ELSE [adk EXCEPT !.raised = "end_session"]
    /\ UNCHANGED <<scenario, committed, nextId, tx, calls, tenant_id, q, solo, svc>>

InitAdk ==
    /\ scenario = "adk"
    /\ committed = [n |-> <<>>, e |-> {}]
    /\ nextId = 1
    /\ tx = [p \in Procs |-> Idle]
    /\ calls = 0
    /\ tenant_id = UNSET
    /\ q = NoQuery
    /\ solo = [t \in Tenants |-> EmptyGraph]
    /\ svc = Constructed
    /\ adk = NewHandler

NextAdk ==
    \/ \E i \in 1..MaxStreams : StartSession(i)
    \/ \E i \in 1..MaxStreams, ok \in BOOLEAN : StreamBegin(i, ok)
    \/ \E i \in 1..MaxStreams : StreamEvent(i)
    \/ \E i \in 1..MaxStreams : StreamFail(i)
    \/ \E i \in 1..MaxStreams : StreamEnd(i)
    \/ \E ok \in BOOLEAN : send_audio(ok)
    \/ \E ok \in BOOLEAN : send_text(ok)
    \/ \E ok \in BOOLEAN : end_session(ok)

SpecAdk == InitAdk /\ [][NextAdk]_vars

\* callers in concurrent worker threads
NextConcurrent ==
    \/ \E p \in Procs, a \in ScenarioAnalyses(scenario) : Call(p, a, FALSE)
    \/ \E p \in Procs : RunStep(p)
    \/ \E p \in Procs, kind \in ErrorKinds : Raise(p, kind)
    \/ \E p \in Procs : Commit(p)
    \/ \E p \in Procs : Return(p)
    \/ \E u \in ScenarioUsers(scenario) : HandleUsernameEntry(u)
    \/ \E name \in ClientQueries(scenario), fails \in BOOLEAN :
           get_client_relationships(name, fails)
    \/ \E fails \in BOOLEAN : get_knowledge_graph_summary(fails)
    \/ QueryReturn

SpecConcurrent == InitConcurrent /\ [][NextConcurrent]_vars

\* ------------------------------------------------------------------ claims
\* the Meeting nodes a call wrote: the call's clock value marks them
OwnMeetings(g, a) ==
    {i \in Labelled(g, "Meeting") :
        g.n[i].meetingId = a.meetingId /\ g.n[i].processingTimestamp = a.processingTimestamp}

\* C1: while a store_meeting_data call is inside its transaction, and after it
\* has returned False, the committed graph is the graph the call found: no
\* node and no relationship of the call is visible to readers.
C1_Atomicity ==
    \A p \in Procs :
        /\ tx[p].pc = "tx" => committed = tx[p].pre
        /\ (tx[p].pc = "done" /\ tx[p].result = "false") => committed = tx[p].pre

\* a call raised after at least two statements had run, on a non-empty graph
C1_Witness ==
    \E p \in Procs :
        /\ tx[p].pc = "done" /\ tx[p].result = "false" /\ tx[p].err # "none"
        /\ tx[p].k >= 3
        /\ Ids(committed) # {}

\* C2: store_meeting_data ends with True or False, never with an exception,
\* whatever was raised; it returns True exactly when its Meeting node is in
\* the committed graph.
C2_NeverRaises ==
    \A p \in Procs :
        /\ tx[p].result \in {"none", "true", "false"}
        /\ tx[p].pc = "done" => tx[p].result \in {"true", "false"}
        /\ tx[p].pc = "done" =>
              (tx[p].result = "true" <=> OwnMeetings(committed, tx[p].a) # {})

\* an exception that is no Neo4jError was raised mid-transaction
C2_Witness ==
    \E p \in Procs :
        tx[p].pc = "done" /\ tx[p].err = "Exception" /\ tx[p].k >= 2
        /\ tx[p].result = "false"

\* C3: a call whose record has no meetingId (None or "") returns False, makes
\* no database call and leaves the graph as it found it.
C3_MissingMeetingId ==
    \A p \in Procs :
        (tx[p].pc # "idle" /\ tx[p].a.meetingId \in {NULL, ""}) =>
            /\ tx[p].pc = "done"
            /\ tx[p].result = "false"
            /\ tx[p].dbCalls = 0
            /\ committed = tx[p].pre
            /\ nextId = tx[p].preId

\* a record with an empty meetingId was refused on a non-empty graph
C3_Witness ==
    \E p \in Procs :
        tx[p].pc = "done" /\ tx[p].a.meetingId = "" /\ tx[p].result = "false"
        /\ Ids(committed) # {}

\* nodes of one label that share the merge key (name, tenantId)
SameKey(g, label, x, y) ==
    g.n[x].name = g.n[y].name /\ g.n[x].tenantId = g.n[y].tenantId

UniqueNamed(g, label) ==
    \A x, y \in Labelled(g, label) : SameKey(g, label, x, y) => x = y

\* every non-empty name of the list has a node of the tenant, joined to each
\* of the call's own Meeting nodes by exactly one relationship
LinkedOnce(g, a, names, label, etype) ==
    \A i \in 1..Len(names) :
        names[i] # "" =>
            \E x \in Labelled(g, label) :
                /\ g.n[x].name = names[i] /\ g.n[x].tenantId = a.tenantId
                /\ \A m \in OwnMeetings(g, a) : Cardinality(Edges(g, etype, m, x)) = 1

\* C4: in the committed graph of sequential callers there is one Client and
\* one Project node per (name, tenantId), none with an empty name, never two
\* relationships of the kind between a meeting and the node, and a meeting
\* just stored has exactly one relationship to the node of each name it
\* mentions, repeated or not.
C4_IdempotentMerge ==
    /\ UniqueNamed(committed, "Client")
    /\ UniqueNamed(committed, "Project")
    /\ \A x \in Labelled(committed, "Client") \cup Labelled(committed, "Project") :
           committed.n[x].name # ""
    /\ \A m \in Labelled(committed, "Meeting") :
           /\ \A x \in Labelled(committed, "Client") :
                  Cardinality(Edges(committed, "DISCUSSED_CLIENT", m, x)) <= 1
           /\ \A x \in Labelled(committed, "Project") :
                  Cardinality(Edges(committed, "RELATES_TO_PROJECT", m, x)) <= 1
    /\ \A p \in Procs :
           (tx[p].pc = "done" /\ tx[p].result = "true") =>
               /\ LinkedOnce(committed, tx[p].a, tx[p].a.mentionedClients,
                             "Client", "DISCUSSED_CLIENT")
               /\ LinkedOnce(committed, tx[p].a, tx[p].a.mentionedProjects,
                             "Project", "RELATES_TO_PROJECT")

\* a second meeting that names the client twice was stored, and the one
\* Client node is linked from two meetings
C4_Witness ==
    \E p \in Procs :
        /\ tx[p].pc = "done" /\ tx[p].result = "true"
        /\ tx[p].a.mentionedClients = <<"Acme", "Acme">>
        /\ \E x \in Labelled(committed, "Client") :
               Cardinality({e \in committed.e : e[1] = "DISCUSSED_CLIENT" /\ e[3] = x}) = 2

\* the result the query call in progress would have on graph g
QueryOn(g, call) ==
    CASE call.op = "get_action_items_by_person" ->
           ListResult(ActionItemsByPerson(g, call.tenant, call.arg))
      [] call.op = "get_meetings_by_project" ->
           ListResult(MeetingsByProject(g, call.tenant, call.arg))
      [] call.op = "get_client_relationships" ->
           ListResult(ClientRelationships(g, call.tenant, call.arg))
      [] call.op = "get_knowledge_graph_summary" ->
           KnowledgeGraphSummary(g, call.tenant)
      [] call.op = "search_meetings" ->
           ListResult(MeetingsMatching(g, call.tenant, call.arg[1], call.arg[2]))
      [] call.op = "get_historical_context" ->
           HistoryResult(HistoricalContext(g, call.tenant, call.arg[1], call.arg[2]))
      [] call.op = "analyze_team_health" ->
           TeamHealth(TeamMetrics(g, call.tenant, call.arg))
      [] call.op = "find_blockers" ->
           BlockersResult(FindBlockers(g, call.tenant, call.arg))

\* C5: the result of a query under a tenant is the result the query has on
\* the graph that only this tenant's calls built.
C5_TenantIsolation ==
    (q # NoQuery /\ ~q.failed) => q.res = QueryOn(solo[q.tenant], q)

\* C5 for the queries other than get_knowledge_graph_summary
C5_IsolationOfListQueries ==
    (q # NoQuery /\ ~q.failed /\ q.op # "get_knowledge_graph_summary")
        => q.res = QueryOn(solo[q.tenant], q)

\* C5, the example: each of two tenants stored one meeting that mentions
\* client "Acme", and get_client_relationships("Acme") reports meetingCount 1
C5_Example ==
    (/\ q # NoQuery /\ ~q.failed /\ q.op = "get_client_relationships" /\ q.arg = "Acme"
     /\ \A t \in Tenants :
            /\ Cardinality(TenantNodes(committed, "Meeting", t)) = 1
            /\ \E x \in TenantNodes(committed, "Client", t) :
                   committed.n[x].name = "Acme"
                   /\ \E e \in committed.e : e[1] = "DISCUSSED_CLIENT" /\ e[3] = x)
        => q.res = ListResult(<<[clientName |-> "Acme", meetingCount |-> 1]>>)

\* C6: once no transaction is in flight, the committed graph holds one node
\* per Client (name, tenantId), per Project (name, tenantId) and per Person
\* name key.
C6_ConcurrentMergeUnique ==
    (\A p \in Procs : tx[p].pc # "tx") =>
        /\ UniqueNamed(committed, "Client")
        /\ UniqueNamed(committed, "Project")
        /\ UniqueNamed(committed, "Person")

\* the attendee entry of the claim and the assignees it is made about
ConnorEntry == Attendee(SarahConnor, Email1)
SarahNames == {Sarah, SarahConnor}

\* an attendee's name equals, contains or is contained in the assignee,
\* letter case aside
NameMatches(assignee, att) ==
    LET n == Lower(Strip(att.name))
        s == Lower(assignee)
    IN n # <<>> /\ (Contains(n, s) \/ Contains(s, n))

\* Sarah Connor's entry is in the list and no entry before it matches
ConnorFirstMatch(assignee, atts) ==
    \E k \in 1..Len(atts) :
        /\ atts[k] = ConnorEntry
        /\ \A j \in 1..(k - 1) : ~NameMatches(assignee, atts[j])

\* the Person nodes whose merge key is (Email1, t)
ConnorNodes(g, t) ==
    {x \in Labelled(g, "Person") : g.n[x].email = Email1 /\ g.n[x].tenantId = t}

\* the action items graph g links from a Person keyed (Email1, t)
ConnorItems(g, t) ==
    {e[3] : e \in {f \in g.e : f[1] = "ASSIGNED_TO" /\ f[2] \in ConnorNodes(g, t)}}

\* after the call of p: one Person node keyed (Email1, tenantId); it is the
\* source of one ASSIGNED_TO for each item of the call that is assigned to
\* "Sarah" or "Sarah Connor" and satisfies Pre, and the only source for the
\* item nodes the call created; and every item the graph before the call
\* linked from that key is still linked from the node
LinkedFromConnor(p, Pre(_)) ==
    LET a == tx[p].a
        I == {i \in 1..Len(a.actionItems) :
                 ItemAssignee(a.actionItems[i]) \in SarahNames /\ Pre(i)}
        P == ConnorNodes(committed, a.tenantId)
    IN I # {} =>
          /\ Cardinality(P) = 1
          /\ \A i \in I :
                \A n \in MatchActionItem(committed, ActionId(a.meetingId, i)) :
                    /\ \A x \in P : Cardinality(Edges(committed, "ASSIGNED_TO", x, n)) = 1
                    /\ \A e \in committed.e :
                          (e[1] = "ASSIGNED_TO" /\ e[3] = n /\ n \notin DOMAIN tx[p].pre.n)
                              => e[2] \in P
          /\ ConnorItems(tx[p].pre, a.tenantId) \subseteq ConnorItems(committed, a.tenantId)

Stored(p) == tx[p].pc = "done" /\ tx[p].result = "true"

\* C7 as stated: whenever the attendee list of a stored meeting contains
\* {name: "Sarah Connor", email: e}, its action items assigned to "Sarah" or
\* to "Sarah Connor" are linked by ASSIGNED_TO from the one Person node keyed
\* (e, tenantId), which keeps the items of earlier meetings.
C7_PersonResolution ==
    \A p \in Procs :
        Stored(p) =>
            LET atts == InviteAttendees(tx[p].a)
                HasConnor(i) == \E k \in 1..Len(atts) : atts[k] = ConnorEntry
            IN LinkedFromConnor(p, HasConnor)

\* C7 amended: the same, for the items whose assignee finds Sarah Connor's
\* entry as the first entry of the attendee list, in list order, whose name
\* equals, contains or is contained in the assignee.
C7_FirstMatchResolution ==
    \A p \in Procs :
        Stored(p) =>
            LET atts == InviteAttendees(tx[p].a)
                First(i) == ConnorFirstMatch(ItemAssignee(tx[p].a.actionItems[i]), atts)
            IN LinkedFromConnor(p, First)

\* a first meeting with an item for "Sarah" and a later meeting with an item
\* for "Sarah Connor" are stored, and the one Person node, keyed Email1, is
\* the source of ASSIGNED_TO for both items
C7_Witness ==
    /\ Stored(1) /\ calls = 2
    /\ tx[1].a.inviteMetadata = Invite(<<ConnorEntry>>)
    /\ Cardinality(Labelled(committed, "Person")) = 1
    /\ \E x \in ConnorNodes(committed, "A") :
       \E e1, e2 \in committed.e :
           /\ e1[1] = "HAS_ACTION_ITEM" /\ e2[1] = "HAS_ACTION_ITEM"
           /\ committed.n[e1[2]].processingTimestamp = 1
           /\ committed.n[e2[2]].processingTimestamp = 2
           /\ committed.n[e1[3]].assignee = Sarah
           /\ committed.n[e2[3]].assignee = SarahConnor
           /\ Edges(committed, "ASSIGNED_TO", x, e1[3]) # {}
           /\ Edges(committed, "ASSIGNED_TO", x, e2[3]) # {}

\* rank of a priority: high, medium, low, then anything else
PriorityRank(pr) ==
    CASE pr = P_high -> 1 [] pr = P_medium -> 2 [] pr = P_low -> 3 [] OTHER -> 4

\* C8: the rows get_action_items_by_person returns are in priority rank
\* order high, medium, low, unspecified, and in ascending dueDate order
\* within one priority.
C8_PriorityOrdering ==
    (q # NoQuery /\ q.op = "get_action_items_by_person" /\ ~q.failed) =>
        \A i, j \in 1..Len(q.res.rows) :
            i < j =>
                \/ PriorityRank(q.res.rows[i].priority) < PriorityRank(q.res.rows[j].priority)
                \/ /\ PriorityRank(q.res.rows[i].priority) = PriorityRank(q.res.rows[j].priority)
                   /\ ~StrLess(q.res.rows[j].dueDate, q.res.rows[i].dueDate)

\* the number of nodes of each label that tenant t has in graph g
ExactCounts(g, t) ==
    [meetings |-> Cardinality(TenantNodes(g, "Meeting", t)),
     people |-> Cardinality(TenantNodes(g, "Person", t)),
     clients |-> Cardinality(TenantNodes(g, "Client", t)),
     projects |-> Cardinality(TenantNodes(g, "Project", t)),
     actionItems |-> Cardinality(TenantNodes(g, "ActionItem", t)),
     decisions |-> Cardinality(TenantNodes(g, "Decision", t))]

\* C9: get_knowledge_graph_summary on a backend that answers returns, for
\* each of its six keys, the exact number of the tenant's nodes of the label.
C9_SummaryCounts ==
    (q # NoQuery /\ q.op = "get_knowledge_graph_summary" /\ ~q.failed) =>
        q.res = DictResult(SummaryKeys, ExactCounts(committed, q.tenant))

\* C10: get_knowledge_graph_summary returns a dict in every case, and for a
\* tenant without any node, on a backend that answers, the dict with the six
\* keys all 0.
C10_ZeroStateSummary ==
    (q # NoQuery /\ q.op = "get_knowledge_graph_summary") =>
        /\ q.res.kind = "dict"
        /\ (~q.failed /\ ExactCounts(committed, q.tenant) = ZeroSummary) =>
               q.res = DictResult(SummaryKeys, ZeroSummary)

\* the summary of a tenant without data is asked while another tenant has a
\* meeting stored
C10_Witness ==
    /\ q # NoQuery /\ q.op = "get_knowledge_graph_summary" /\ ~q.failed
    /\ q.tenant \in Tenants
    /\ ExactCounts(committed, q.tenant) = ZeroSummary
    /\ \E t \in Tenants \ {q.tenant} : TenantNodes(committed, "Meeting", t) # {}
    /\ q.res = DictResult(SummaryKeys, ZeroSummary)

\* the value each query method is defined to return when it fails
ServiceQueries ==
    {"get_action_items_by_person", "get_meetings_by_project",
     "get_client_relationships", "get_knowledge_graph_summary", "search_meetings"}

FailureValue(op) ==
    IF op = "get_knowledge_graph_summary"
    THEN DictResult(SummaryKeys, ZeroSummary)
    ELSE ListResult(<<>>)

\* C11: a query during which the backend, or the read of the ambient tenant,
\* raises returns its defined failure value and raises nothing: the empty
\* list, or for get_knowledge_graph_summary the six-key zero-filled dict.
C11_FailureValues ==
    (q # NoQuery /\ q.op \in ServiceQueries /\ q.failed) => q.res = FailureValue(q.op)

\* C11 for the four list queries on a backend that raises once the tenant
\* has been read
C11_ListQueriesOnBackendFailure ==
    (q # NoQuery /\ q.failed /\ q.tenant # UNSET
     /\ q.op \in ServiceQueries \ {"get_knowledge_graph_summary"}) =>
        q.res = ListResult(<<>>)

\* C12: every node of the committed graph has a non-null tenantId.
C12_EveryNodeHasTenant ==
    \A i \in DOMAIN committed.n : committed.n[i].tenantId # NULL

\* the record of the call of p leaves out meetingDate, sentiment,
\* meetingType and metadata
OmitsOptionalFields(a) ==
    /\ a.meetingDate = MISSING /\ a.sentiment = MISSING
    /\ a.meetingType = MISSING /\ ~a.metadata.present

\* node text t is the first TranscriptLimit characters of input text u
IsStoredTranscript(t, u) ==
    /\ t.head = u.head
    /\ TextLen(t) = IF TextLen(u) < TranscriptLimit THEN TextLen(u) ELSE TranscriptLimit

\* C13: the Meeting node of a stored record that omits meetingDate,
\* sentiment, meetingType and metadata has meetingDate "unknown", sentiment
\* "neutral", meetingType "other", urgencyLevel "normal" and requiresFollowUp
\* false; the transcript of every stored Meeting node is the first 10,000
\* characters of the record's, and empty when the record has none.
C13_Defaulting ==
    \A p \in Procs :
        Stored(p) =>
            /\ OwnMeetings(committed, tx[p].a) # {}
            /\ \A m \in OwnMeetings(committed, tx[p].a) :
                  LET node == committed.n[m]
                  IN /\ OmitsOptionalFields(tx[p].a) =>
                           /\ node.meetingDate = D_unknown
                           /\ node.sentiment = S_neutral
                           /\ node.meetingType = T_other
                           /\ node.urgencyLevel = U_normal
                           /\ node.requiresFollowUp = B_false
                     /\ IF tx[p].a.transcript.given
                        THEN IsStoredTranscript(node.transcript, tx[p].a.transcript)
                        ELSE TextLen(node.transcript) = 0

\* a record without the four fields and with a transcript of 10,001
\* characters is stored, cut to 10,000
C13_Witness ==
    \E p \in Procs :
        /\ Stored(p) /\ OmitsOptionalFields(tx[p].a)
        /\ TextLen(tx[p].a.transcript) = TranscriptLimit + 1
        /\ \E m \in OwnMeetings(committed, tx[p].a) :
               /\ TextLen(committed.n[m].transcript) = TranscriptLimit
               /\ committed.n[m].meetingDate = D_unknown

\* the relationships of one type that end in node x
Incoming(g, etype, x) == {e \in g.e : e[1] = etype /\ e[3] = x}

\* the relationships of one type that start in node x
Outgoing(g, etype, x) == {e \in g.e : e[1] = etype /\ e[2] = x}

\* C14: in the committed graph every ActionItem node has exactly one
\* incoming HAS_ACTION_ITEM relationship, from a Meeting, and at most one
\* incoming ASSIGNED_TO relationship, from a Person.
C14_SingleOwnership ==
    \A x \in Labelled(committed, "ActionItem") :
        /\ Cardinality(Incoming(committed, "HAS_ACTION_ITEM", x)) = 1
        /\ \A e \in Incoming(committed, "HAS_ACTION_ITEM", x) :
               e[2] \in Labelled(committed, "Meeting")
        /\ Cardinality(Incoming(committed, "ASSIGNED_TO", x)) <= 1

\* C14, the HAS_ACTION_ITEM half alone
C14_OneMeetingPerItem ==
    \A x \in Labelled(committed, "ActionItem") :
        Cardinality(Incoming(committed, "HAS_ACTION_ITEM", x)) = 1

\* an assignee for which a Person is made: not missing, not empty and not
\* the sentinel "unassigned"
OwnsWork(assignee) == assignee \notin {NoneS, <<>>, UNASSIGNED}

\* C15: every Person node of the committed graph has an outgoing ASSIGNED_TO
\* relationship to an ActionItem, and every Person node a stored call created
\* has one to an action item that the call created and whose assignee is
\* neither missing, empty nor "unassigned".
C15_PersonsOwnWork ==
    /\ \A x \in Labelled(committed, "Person") :
           \E e \in Outgoing(committed, "ASSIGNED_TO", x) :
               e[3] \in Labelled(committed, "ActionItem")
    /\ \A p \in Procs :
           Stored(p) =>
               \A x \in Labelled(committed, "Person") \ DOMAIN tx[p].pre.n :
                   \E e \in Outgoing(committed, "ASSIGNED_TO", x) :
                       /\ e[3] \in Labelled(committed, "ActionItem") \ DOMAIN tx[p].pre.n
                       /\ OwnsWork(committed.n[e[3]].assignee)

\* a meeting with an attendee list, an "unassigned" item and an item for
\* "Sarah" is stored: two ActionItem nodes and one Person node
C15_Witness ==
    \E p \in Procs :
        /\ Stored(p)
        /\ tx[p].a.inviteMetadata.present
        /\ Len(tx[p].a.actionItems) = 2
        /\ tx[p].a.actionItems[1].assignee = UNASSIGNED
        /\ Cardinality(Labelled(committed, "ActionItem")) = 2
        /\ Cardinality(Labelled(committed, "Person")) = 1

\* attendee att is a dict whose name, blanks at its ends aside, is not empty
\* and equals, contains or is contained in the assignee, letter case aside
Matches(assignee, att) ==
    /\ att.isDict
    /\ LET n == Lower(Strip(OrEmpty(att.name)))
           s == Lower(assignee)
       IN n # <<>> /\ (n = s \/ Contains(n, s) \/ Contains(s, n))

\* the positions of the first matching attendee: one position or none
FirstMatches(assignee, atts) ==
    {k \in 1..Len(atts) :
        Matches(assignee, atts[k]) /\ \A j \in 1..(k - 1) : ~Matches(assignee, atts[j])}

\* the merge key the first-match rule gives an assignee
ExpectedKey(assignee, atts) ==
    IF FirstMatches(assignee, atts) = {}
    THEN [by |-> "name", key |-> assignee]
    ELSE LET att == atts[CHOOSE k \in FirstMatches(assignee, atts) : TRUE]
         IN IF Strip(OrEmpty(att.email)) # <<>>
            THEN [by |-> "email", key |-> Strip(OrEmpty(att.email))]
            ELSE [by |-> "name", key |-> Strip(OrEmpty(att.name))]

\* C17: each action item node a stored call created for an assignable item
\* is linked by ASSIGNED_TO from a Person of the tenant, and only from
\* Persons with the key of the first-match rule: the e-mail of the first
\* matching attendee, else that attendee's name, else (no list, no match)
\* the assignee string; a Person the call created under a name key has no
\* e-mail.
C17_FirstMatchRule ==
    \A p \in Procs :
        Stored(p) =>
            LET a == tx[p].a
            IN \A i \in 1..Len(a.actionItems) :
                  Assignable(a.actionItems[i]) =>
                      LET want == ExpectedKey(ItemAssignee(a.actionItems[i]), InviteAttendees(a))
                      IN \A n \in MatchActionItem(committed, ActionId(a.meetingId, i))
                                    \ DOMAIN tx[p].pre.n :
                            /\ Incoming(committed, "ASSIGNED_TO", n) # {}
                            /\ \A e \in Incoming(committed, "ASSIGNED_TO", n) :
                                  LET x == committed.n[e[2]]
                                  IN /\ x.label = "Person" /\ x.tenantId = a.tenantId
                                     /\ want.by = "email" => x.email = want.key
                                     /\ want.by = "name" =>
                                            /\ x.name = want.key
                                            /\ e[2] \notin DOMAIN tx[p].pre.n => x.email = NoneS

\* an item for "s" is stored with attendees [no name/e2, "S C"/e1]: the
\* first entry is passed over and the Person is keyed by e1
C17_Witness ==
    \E p \in Procs :
        /\ Stored(p)
        /\ tx[p].a.inviteMetadata.attendees =
               <<Attendee(NoneS, Email2), Attendee(SarahConnor, Email1)>>
        /\ tx[p].a.actionItems[1].assignee = SarahLower
        /\ \E x \in Labelled(committed, "Person") :
               /\ committed.n[x].email = Email1
               /\ Outgoing(committed, "ASSIGNED_TO", x) # {}

\* the e-mail keyed Person nodes the call of p found and merged into
MergedInto(p) ==
    {x \in Labelled(tx[p].pre, "Person") :
        /\ Truthy(tx[p].pre.n[x].email)
        /\ tx[p].pre.n[x].tenantId = tx[p].a.tenantId
        /\ \E i \in 1..Len(tx[p].a.actionItems) :
              /\ Assignable(tx[p].a.actionItems[i])
              /\ ExpectedKey(ItemAssignee(tx[p].a.actionItems[i]),
                             InviteAttendees(tx[p].a)).key = tx[p].pre.n[x].email}

\* C18: a stored call that resolves to an existing e-mail keyed Person leaves
\* the node's name as it was when it was set, and its role as it was when it
\* was set.
C18_NoClobber ==
    \A p \in Procs :
        Stored(p) =>
            \A x \in MergedInto(p) :
                /\ Truthy(tx[p].pre.n[x].name) => committed.n[x].name = tx[p].pre.n[x].name
                /\ Truthy(tx[p].pre.n[x].role) => committed.n[x].role = tx[p].pre.n[x].role

\* C18, the name alone
C18_NameKept ==
    \A p \in Procs :
        Stored(p) =>
            \A x \in MergedInto(p) :
                Truthy(tx[p].pre.n[x].name) => committed.n[x].name = tx[p].pre.n[x].name

\* the nodes of a label that the transaction of p has created so far
NewNodes(p, label) ==
    {i \in DOMAIN tx[p].dn : i \notin DOMAIN tx[p].pre.n /\ tx[p].dn[i].label = label}

\* the positions of the action items, and of the decisions, written so far
ItemsWritten(p) ==
    {i \in 1..Len(tx[p].a.actionItems) :
        \E n \in NewNodes(p, "ActionItem") :
            /\ tx[p].dn[n].actionId = ActionId(tx[p].a.meetingId, i)
            /\ tx[p].dn[n].task = tx[p].a.actionItems[i].task}

DecisionsWritten(p) ==
    {i \in 1..Len(tx[p].a.keyDecisions) :
        \E n \in NewNodes(p, "Decision") :
            /\ tx[p].dn[n].decisionId = DecisionId(tx[p].a.meetingId, i)
            /\ tx[p].dn[n].description = tx[p].a.keyDecisions[i]}

\* the positions of the names of a list that the transaction has linked
NamesLinked(p, names, etype) ==
    {i \in 1..Len(names) :
        names[i] # "" /\ \E e \in tx[p].de : e[1] = etype /\ View(p).n[e[3]].name = names[i]}

\* the item at position i has its ASSIGNED_TO relationship, if it is to have one
PersonLinked(p, i) ==
    Assignable(tx[p].a.actionItems[i]) =>
        \A n \in NewNodes(p, "ActionItem") :
            tx[p].dn[n].actionId = ActionId(tx[p].a.meetingId, i) =>
                \E e \in tx[p].de : e[1] = "ASSIGNED_TO" /\ e[3] = n

IsPrefix(S) == \A i \in S : \A j \in 1..(i - 1) : j \in S

\* C19: at every point of a transaction, whatever has been written comes
\* after the call's Meeting node; the action items written are a prefix of
\* the list, the i-th with actionId (meetingId, i), each one before the last
\* already with its Person link; decisions are written, as a prefix of their
\* list with decisionId (meetingId, i), only after all action items and
\* their Person links; clients only after all decisions; projects only
\* after all clients.
C19_WriteOrder ==
    \A p \in Procs :
        tx[p].pc = "tx" =>
            LET a == tx[p].a
                items == ItemsWritten(p)
                decisions == DecisionsWritten(p)
                clients == NamesLinked(p, a.mentionedClients, "DISCUSSED_CLIENT")
                projects == NamesLinked(p, a.mentionedProjects, "RELATES_TO_PROJECT")
            IN /\ (tx[p].dn # <<>> \/ tx[p].de # {}) => NewNodes(p, "Meeting") # {}
               /\ \A n \in NewNodes(p, "ActionItem") :
                     \E i \in items : tx[p].dn[n].actionId = ActionId(a.meetingId, i)
               /\ \A n \in NewNodes(p, "Decision") :
                     \E i \in decisions : tx[p].dn[n].decisionId = DecisionId(a.meetingId, i)
               /\ IsPrefix(items) /\ IsPrefix(decisions)
               /\ \A i \in items : \A j \in 1..(i - 1) : PersonLinked(p, j)
               /\ decisions # {} =>
                     /\ items = 1..Len(a.actionItems)
                     /\ \A i \in items : PersonLinked(p, i)
               /\ clients # {} => decisions = 1..Len(a.keyDecisions)
               /\ projects # {} =>
                     clients = {i \in 1..Len(a.mentionedClients) : a.mentionedClients[i] # ""}

\* a transaction has written its two action items and the first of its two
\* decisions, and no client or project yet
C19_Witness ==
    \E p \in Procs :
        /\ tx[p].pc = "tx"
        /\ ItemsWritten(p) = {1, 2}
        /\ DecisionsWritten(p) = {1}
        /\ Len(tx[p].a.keyDecisions) = 2
        /\ NamesLinked(p, tx[p].a.mentionedClients, "DISCUSSED_CLIENT") = {}

\* C16: the last tuple process_audio_file yields after upload and analysis
\* succeeded carries the analysis, with the success message when
\* store_meeting_data returned True (or was skipped) and a warning otherwise.
C16_StorageFailureNonFatal ==
    \A p \in Procs :
        (tx[p].via = "pipeline" /\ tx[p].last.stage = "final") =>
            /\ tx[p].last.analysis
            /\ tx[p].last.status = IF tx[p].pc = "skipped" \/ tx[p].result = "true"
                                   THEN "success" ELSE "warning"

\* C16 for the analyses whose list fields are lists
C16_NonFatalForListFields ==
    \A p \in Procs :
        (tx[p].via = "pipeline" /\ tx[p].last.stage = "final"
         /\ ~tx[p].a.mentionedPeople.none) =>
            /\ tx[p].last.analysis
            /\ tx[p].last.status = IF tx[p].pc = "skipped" \/ tx[p].result = "true"
                                   THEN "success" ELSE "warning"

\* the meetings of the queried tenant a returned record stands for
RowMeetings(row) ==
    {m \in TenantNodes(committed, "Meeting", q.tenant) :
        HistoryKey(committed, m) = [meetingTitle |-> row.meetingTitle,
                                    date |-> row.date, summary |-> row.summary]}

\* the nodes linked from meeting m by relationships of one type
LinkedFrom(m, etype) == {e[3] : e \in {e \in committed.e : e[1] = etype /\ e[2] = m}}

\* C20: every record get_historical_context returns stands for a meeting,
\* its decisions are exactly the distinct description texts of the Decision
\* nodes linked from that meeting by HAS_DECISION, and its actionItems are
\* exactly the distinct tasks of the meeting's ActionItem nodes.
C20_HistoryAggregates ==
    (q # NoQuery /\ q.op = "get_historical_context" /\ ~q.failed) =>
        \A i \in 1..Len(q.res.rows) :
            \E m \in RowMeetings(q.res.rows[i]) :
                /\ q.res.rows[i].decisions =
                       {committed.n[d].description : d \in LinkedFrom(m, "HAS_DECISION")}
                /\ q.res.rows[i].actionItems =
                       {committed.n[x].task : x \in LinkedFrom(m, "HAS_ACTION_ITEM")}

\* C20 for the action items alone: a record has the tasks of the queried
\* tenant's ActionItem nodes linked from the meetings that share its title,
\* date and summary
C20_TasksAggregated ==
    (q # NoQuery /\ q.op = "get_historical_context" /\ ~q.failed) =>
        \A i \in 1..Len(q.res.rows) :
            /\ RowMeetings(q.res.rows[i]) # {}
            /\ q.res.rows[i].actionItems =
                   {committed.n[x].task :
                      x \in {y \in UNION {LinkedFrom(m, "HAS_ACTION_ITEM") :
                                            m \in RowMeetings(q.res.rows[i])} :
                               y \in TenantNodes(committed, "ActionItem", q.tenant)}}

\* the decisions list of every returned record is empty
C20_DecisionsNeverCollected ==
    (q # NoQuery /\ q.op = "get_historical_context" /\ ~q.failed) =>
        \A i \in 1..Len(q.res.rows) : q.res.rows[i].decisions = {}

\* a returned record is in the window: it stands for a meeting of the
\* queried tenant whose stored transcript contains the topic and whose
\* meetingDate is a date on or after the cutoff
InWindow(row) ==
    /\ \E m \in RowMeetings(row) : TextContains(committed.n[m].transcript, q.arg[1])
    /\ row.date # D_unknown
    /\ ~StrLess(row.date, q.arg[2])

\* the records are in descending meetingDate order
DateDescending(rows) ==
    \A i \in 1..Len(rows), j \in 1..Len(rows) : i < j => ~StrLess(rows[i].date, rows[j].date)

\* C21: get_historical_context(topic, days) returns at most 5 meetings, in
\* descending meetingDate order, each of the caller's tenant, with a
\* transcript containing topic and a meetingDate on or after now minus days.
C21_TimeWindow ==
    (q # NoQuery /\ q.op = "get_historical_context" /\ ~q.failed) =>
        /\ Len(q.res.rows) <= HistoryLimit
        /\ DateDescending(q.res.rows)
        /\ \A i \in 1..Len(q.res.rows) : InWindow(q.res.rows[i])

\* C21 for the meetings stored with a date: the window holds for every
\* record whose date is not "unknown"
C21_WindowOfDatedMeetings ==
    (q # NoQuery /\ q.op = "get_historical_context" /\ ~q.failed) =>
        /\ Len(q.res.rows) <= HistoryLimit
        /\ DateDescending(q.res.rows)
        /\ \A i \in 1..Len(q.res.rows) :
              q.res.rows[i].date # D_unknown => InWindow(q.res.rows[i])

\* a meeting stored with meetingDate "unknown" is returned for every cutoff
C21_UnknownAlwaysInside ==
    (q # NoQuery /\ q.op = "get_historical_context" /\ ~q.failed) =>
        \A m \in TenantNodes(committed, "Meeting", q.tenant) :
            (committed.n[m].meetingDate = D_unknown
             /\ TextContains(committed.n[m].transcript, q.arg[1])) =>
                \E i \in 1..Len(q.res.rows) : m \in RowMeetings(q.res.rows[i])

\* the ASSIGNED_TO rows of the queried tenant whose person has this name
RowsOf(name) == {e \in AssignedRows(committed, q.tenant) : committed.n[e[2]].name = name}

\* the names of the queried tenant's persons with assigned action items
TeamNames == {committed.n[e[2]].name : e \in AssignedRows(committed, q.tenant)}

HealthAnswered == q # NoQuery /\ q.op = "analyze_team_health" /\ ~q.failed

\* C22: analyze_team_health flags as overloaded exactly the persons of the
\* tenant with more than 10 assigned action items, however many persons the
\* tenant has.
C22_OverloadFlag ==
    (HealthAnswered /\ q.res # NoMetrics) =>
        q.res.overloaded = {n \in TeamNames : Cardinality(RowsOf(n)) > OverloadLimit}

\* C22 without completeness: every flagged person has more than 10 assigned
\* action items, and a person with more than 10 who is among the first five
\* records is flagged
C22_FlagsAmongVisited ==
    (HealthAnswered /\ q.res # NoMetrics) =>
        /\ \A n \in q.res.overloaded : Cardinality(RowsOf(n)) > OverloadLimit
        /\ \A i \in 1..Len(q.res.metrics) :
              (i <= WorkloadShown /\ Cardinality(RowsOf(q.res.metrics[i].person)) > OverloadLimit)
                  => q.res.metrics[i].person \in q.res.overloaded

\* total and blocked of the queried tenant, counted on the graph
TotalAssigned == Cardinality(AssignedRows(committed, q.tenant))
TotalBlocked ==
    Cardinality({e \in AssignedRows(committed, q.tenant) :
                   committed.n[e[3]].status = St_blocked})

\* C23: analyze_team_health reports CRITICAL iff 100*blocked > 30*total,
\* WARNING iff 15*total < 100*blocked <= 30*total and HEALTHY otherwise, with
\* total and blocked the sums of the per-person counts; with no assigned
\* action item it reports that no metrics are available.
C23_Classification ==
    HealthAnswered =>
        /\ (q.res = NoMetrics) <=> (TotalAssigned = 0)
        /\ q.res # NoMetrics =>
              /\ q.res.total = TotalAssigned /\ q.res.blocked = TotalBlocked
              /\ (q.res.status = "CRITICAL") <=> (100 * TotalBlocked > 30 * TotalAssigned)
              /\ (q.res.status = "WARNING") <=>
                     (/\ 15 * TotalAssigned < 100 * TotalBlocked
                      /\ 100 * TotalBlocked <= 30 * TotalAssigned)
              /\ q.res.status \in {"CRITICAL", "WARNING", "HEALTHY"}

\* a report at exactly 30% blocked, classified WARNING
C23_Witness ==
    /\ HealthAnswered /\ q.res # NoMetrics
    /\ TotalAssigned > 0 /\ 100 * TotalBlocked = 30 * TotalAssigned
    /\ q.res.status = "WARNING"

\* a report at exactly 15% blocked is classified HEALTHY, and one without
\* assigned items says that no metrics are available
C23_Boundaries ==
    HealthAnswered =>
        /\ (q.res # NoMetrics /\ 100 * TotalBlocked = 15 * TotalAssigned)
               => q.res.status = "HEALTHY"
        /\ TotalAssigned = 0 => q.res = NoMetrics

BlockersAnswered == q # NoQuery /\ q.op = "find_blockers" /\ ~q.failed

\* the action items of the queried tenant that are blocked or have blockers
Qualifying ==
    {a \in DOMAIN committed.n :
        /\ committed.n[a].label = "ActionItem" /\ committed.n[a].tenantId = q.tenant
        /\ (committed.n[a].status = St_blocked \/ committed.n[a].blockers # <<>>)}

\* a returned row shows a qualifying action item
ShowsQualifying(row) ==
    \E a \in Qualifying :
        /\ committed.n[a].task = row.task /\ committed.n[a].assignee = row.assignee
        /\ committed.n[a].priority = row.priority /\ committed.n[a].blockers = row.blockers

\* the rows of rank k among the returned rows, and among all qualifying rows
ReturnedOfRank(k) ==
    Cardinality({i \in 1..Len(q.res.rows) : PriorityRank(q.res.rows[i].priority) = k})
QualifyingOfRank(k) ==
    Cardinality({r \in BlockerRows(committed, q.tenant) :
                   PriorityRank(committed.n[r[1]].priority) = k})

\* C24: find_blockers returns at most 10 rows, each a blocked action item of
\* the caller's tenant, in the rank order high, medium, low, unspecified; and
\* when rows are cut off, no row left out ranks above a row returned.
C24_FindBlockers ==
    BlockersAnswered =>
        /\ Len(q.res.rows) <= BlockerLimit
        /\ \A i \in 1..Len(q.res.rows) : ShowsQualifying(q.res.rows[i])
        /\ \A i, j \in 1..Len(q.res.rows) :
              i < j => PriorityRank(q.res.rows[i].priority) <= PriorityRank(q.res.rows[j].priority)
        /\ \A k \in 1..4 :
              (\E i \in 1..Len(q.res.rows) : PriorityRank(q.res.rows[i].priority) > k)
                  => ReturnedOfRank(k) = QualifyingOfRank(k)

\* C24 with the ranks of the query: high, medium, and everything else
C24_ThreeRanks ==
    BlockersAnswered =>
        /\ Len(q.res.rows) <= BlockerLimit
        /\ Len(q.res.rows) < BlockerLimit =>
              Len(q.res.rows) = Cardinality(BlockerRows(committed, q.tenant))
        /\ \A i \in 1..Len(q.res.rows) : ShowsQualifying(q.res.rows[i])
        /\ \A i, j \in 1..Len(q.res.rows) :
              i < j => BlockerRank(q.res.rows[i].priority) <= BlockerRank(q.res.rows[j].priority)
        /\ \A k \in 1..2 :
              (\E i \in 1..Len(q.res.rows) : BlockerRank(q.res.rows[i].priority) > k)
                  => ReturnedOfRank(k) = QualifyingOfRank(k)

\* more than 10 rows qualify and 10 are returned
C24_CutOff ==
    /\ BlockersAnswered
    /\ Cardinality(BlockerRows(committed, q.tenant)) > BlockerLimit
    /\ Len(q.res.rows) = BlockerLimit
    /\ q.res.rows[1].priority = P_high

\* the graph a call leaves when it stores record a on the graph it found
WrittenBy(p) ==
    RunFrom([n |-> tx[p].pre.n, e |-> tx[p].pre.e, next |-> tx[p].preId], tx[p].a, 1)

\* C25: Neo4jService() raises only when the driver or the connectivity check
\* fails, and then no index statement has been run; once connectivity has
\* succeeded a failing index statement ends construction successfully; and
\* whichever indexes are in place, a stored record writes the graph its
\* statements define and a query returns what it selects from that graph.
C25_Construction ==
    /\ svc.pc = "raised" => (~svc.connected /\ svc.ran = 0 /\ svc.indexes = {})
    /\ svc.warned => (svc.pc = "ready" /\ svc.connected)
    /\ (svc.pc = "indexing" /\ svc.ran > 0) => svc.indexes = 1..svc.ran
    /\ \A p \in Procs :
          /\ tx[p].pc # "idle" => svc.pc = "ready"
          /\ Stored(p) => (committed.n = WrittenBy(p).n /\ committed.e = WrittenBy(p).e)
          /\ (tx[p].pc = "done" /\ tx[p].result = "false") => committed = tx[p].pre
    /\ (q # NoQuery /\ ~q.failed) => q.res = QueryOn(committed, q)

\* construction ended although an index statement failed, with some of the
\* indexes missing, and a record with an action item, a decision, a client
\* and a project has been stored
C25_Witness ==
    /\ svc.pc = "ready" /\ svc.warned /\ svc.indexes # Indexes
    /\ Stored(1) /\ tx[1].a.actionItems # <<>>
    /\ Labelled(committed, "Person") # {}

\* the tenant a generated meeting id starts with
EmbeddedTenant(meeting_id) ==
    IF meeting_id \in {"A_mtg_m1", "A_mtg_m2"} THEN "A" ELSE "B"

\* C26: every meeting process_audio_file stored has on its Meeting node the
\* tenant its generated meetingId starts with, also when
\* handle_username_entry runs between the generation of the id and the
\* enrichment of the analysis.
C26_TenantStable ==
    scenario = "pipeline" =>
        \A m \in Labelled(committed, "Meeting") :
            committed.n[m].tenantId = EmbeddedTenant(committed.n[m].meetingId)

RelationshipTypes ==
    {"HAS_ACTION_ITEM", "HAS_DECISION", "ASSIGNED_TO", "DISCUSSED_CLIENT", "RELATES_TO_PROJECT"}

\* C27: in every committed graph the two ends of every relationship carry
\* the same tenantId, also when two tenants store records with equal
\* meetingId.
C27_NoCrossTenantRelationships ==
    \A e \in committed.e :
        e[1] \in RelationshipTypes =>
            committed.n[e[2]].tenantId = committed.n[e[3]].tenantId

\* C27 for relationships written by calls whose meetingId no other tenant
\* has stored
C27_WithinTenantForOwnIds ==
    \A e \in committed.e :
        LET ends == {e[2], e[3]}
            M == {m \in ends : committed.n[m].label = "Meeting"}
        IN (e[1] \in {"DISCUSSED_CLIENT", "RELATES_TO_PROJECT"} /\
            \A m \in M : \A o \in Labelled(committed, "Meeting") :
                committed.n[o].meetingId = committed.n[m].meetingId
                    => committed.n[o].tenantId = committed.n[m].tenantId)
           => committed.n[e[2]].tenantId = committed.n[e[3]].tenantId

\* the nodes of the graph a call found whose label is one of these
Previously(p, labels) == {i \in DOMAIN tx[p].pre.n : tx[p].pre.n[i].label \in labels}

\* C28: a successful store_meeting_data call changes no property of a
\* Meeting, ActionItem or Decision node stored before it and adds no
\* relationship to a Meeting stored before it, whatever the two meetingIds.
C28_StoredMeetingsImmutable ==
    \A p \in Procs :
        Stored(p) =>
            /\ \A i \in Previously(p, {"Meeting", "ActionItem", "Decision"}) :
                  i \in DOMAIN committed.n /\ committed.n[i] = tx[p].pre.n[i]
            /\ \A e \in committed.e \ tx[p].pre.e :
                  e[2] \notin Previously(p, {"Meeting"})

\* C28 for the properties alone, and for the relationships of a call whose
\* meetingId was not stored before
C28_PropertiesKept ==
    \A p \in Procs :
        Stored(p) =>
            /\ \A i \in Previously(p, {"Meeting", "ActionItem", "Decision"}) :
                  i \in DOMAIN committed.n /\ committed.n[i] = tx[p].pre.n[i]
            /\ (\A i \in Previously(p, {"Meeting"}) :
                    tx[p].pre.n[i].meetingId # tx[p].a.meetingId)
                  => \A e \in committed.e \ tx[p].pre.e :
                        e[2] \notin Previously(p, {"Meeting"})

\* C29: after any sequence of sequential store_meeting_data calls no two
\* Person nodes of one tenant have the same name.
C29_UniquePersonName ==
    \A x, y \in Labelled(committed, "Person") :
        (committed.n[x].tenantId = committed.n[y].tenantId
         /\ committed.n[x].name = committed.n[y].name) => x = y

\* C29 for records without attendee metadata: persons merged by name alone
\* are unique per name and tenant
C29_UniqueWhenKeyedByName ==
    \A x, y \in Labelled(committed, "Person") :
        (committed.n[x].tenantId = committed.n[y].tenantId
         /\ committed.n[x].name = committed.n[y].name
         /\ committed.n[x].email = NoneS /\ committed.n[y].email = NoneS) => x = y

\* C30: on one AdkStreamHandler at most one start_session stream is in
\* progress at any time, a start_session begun while another stream has not
\* terminated raises RuntimeError, and is_running is False once the only
\* stream has terminated.
C30_SingleLiveSession ==
    /\ Cardinality(InProgress(adk)) <= 1
    /\ \A i \in adk.overlapped : adk.gens[i] = "raised"
    /\ (InProgress(adk) = {} /\ \E i \in 1..MaxStreams : adk.gens[i] = "done")
           => ~adk.is_running

\* what the is_running flag does give: while it is set a stream is in
\* progress and a stream that begins raises, and it is clear whenever no
\* stream is in progress
C30_FlagGuards ==
    /\ adk.is_running => InProgress(adk) # {}
    /\ InProgress(adk) = {} => ~adk.is_running
    /\ \A i \in 1..MaxStreams : adk.gens[i] = "raised" => i \in adk.overlapped

\* two streams are in progress after end_session was called during the first
C30_TwoStreams ==
    /\ Cardinality(InProgress(adk)) = 2
    /\ adk.queue = "open"

====
